---------------------------- MODULE Spec2Model ----------------------------
(***************************************************************************)
(* Marketing dashboard: the four views (demographic, device, region,       *)
(* weekly), their rollups over the fetched campaigns, and the geometry of  *)
(* the HeatMap and LineChart components.                                   *)
(*                                                                         *)
(* Each view is a state machine: the data source holds a dataset           *)
(* (source), the view mounts in the loading state with a pending fetch     *)
(* (pc = "pending"), the fetch resolves or rejects, and the view renders   *)
(* its memoised aggregate and its chart component.                         *)
(*                                                                         *)
(* JavaScript numbers that come out of a division are exact rationals      *)
(* [k, n, d] with the IEEE specials NaN and +/-Infinity kept as kinds;     *)
(* counters the code only adds up stay integers.  Coordinates are in units *)
(* of 1/10000 degree.                                                      *)
(***************************************************************************)
EXTENDS Integers, Sequences, FiniteSets, TLC

VARIABLES
    view,               \* which page component is mounted
    source,             \* the campaigns fetchMarketingData() will return
    pc,                 \* position of loadData: pending, finally, done
    marketingData,      \* useState<MarketingData | null>
    error,              \* useState<string | null>
    rejection,          \* what the fetch rejected with, if it did
    loading,            \* useState(true)
    demographicMetrics, \* useMemo of DemographicView
    deviceMetrics,      \* useMemo of DeviceView
    regionalData,       \* useMemo of RegionView (arrays shared with HeatMap)
    weeklyChartData,    \* useMemo of WeeklyView
    heatMaps,           \* the two HeatMap instances of RegionView
    lineChart,          \* the LineChart instance of WeeklyView
    fetches,            \* calls of fetchMarketingData() so far
    heatMap,            \* a HeatMap component on its own, with its props
    chartSeries         \* the props of a LineChart on its own: [series |-> ...]

vars == <<view, source, pc, marketingData, error, rejection, loading, demographicMetrics,
          deviceMetrics, regionalData, weeklyChartData, heatMaps, lineChart,
          fetches, heatMap, chartSeries>>

-----------------------------------------------------------------------------
(* Bounds of the model *)

\* campaigns plus sub-records of the dataset the data source returns
MaxDatasetSize == 4

\* renders of a HeatMap with new props after its mount
MaxPropsRenders == 2

\* points of one series of a LineChart
MaxSeriesPoints == 2

\* sub-records of one campaign in the datasets of the rollups
MaxCampaignRecords == 2

-----------------------------------------------------------------------------
(* JavaScript values *)

Null == [null |-> TRUE]
Undefined == [undefined |-> TRUE]

Abs(i) == IF i < 0 THEN -i ELSE i

RECURSIVE GCD(_, _)
GCD(a, b) == IF b = 0 THEN a ELSE GCD(b, a % b)

NaN == [k |-> "nan", n |-> 0, d |-> 1]
Infinity == [k |-> "inf", n |-> 1, d |-> 1]
NegInfinity == [k |-> "inf", n |-> -1, d |-> 1]

Normalize(n, d) ==
    LET g == GCD(Abs(n), d)
    IN  [k |-> "fin", n |-> n \div g, d |-> d \div g]

Num(i) == [k |-> "fin", n |-> i, d |-> 1]

IsFinite(x) == x.k = "fin"

Sign(i) == IF i > 0 THEN 1 ELSE IF i < 0 THEN -1 ELSE 0

\* IEEE-754 division: 0/0 and Infinity/Infinity are NaN, x/0 is +/-Infinity
JsDiv(a, b) ==
    IF a.k = "nan" \/ b.k = "nan" THEN NaN
    ELSE IF a.k = "inf" /\ b.k = "inf" THEN NaN
    ELSE IF a.k = "inf"
         THEN IF a.n * Sign(b.n) >= 0 THEN Infinity ELSE NegInfinity
    ELSE IF b.k = "inf" THEN Num(0)
    ELSE IF b.n = 0
         THEN IF a.n = 0 THEN NaN
              ELSE IF a.n > 0 THEN Infinity ELSE NegInfinity
    ELSE Normalize(a.n * b.d * Sign(b.n), a.d * Abs(b.n))

JsMul(a, b) ==
    IF a.k = "nan" \/ b.k = "nan" THEN NaN
    ELSE IF a.k = "inf" \/ b.k = "inf"
         THEN IF a.n = 0 \/ b.n = 0 THEN NaN
              ELSE IF Sign(a.n) * Sign(b.n) > 0 THEN Infinity ELSE NegInfinity
    ELSE Normalize(a.n * b.n, a.d * b.d)

JsAdd(a, b) ==
    IF a.k = "nan" \/ b.k = "nan" THEN NaN
    ELSE IF a.k = "inf" /\ b.k = "inf"
         THEN IF a.n = b.n THEN a ELSE NaN
    ELSE IF a.k = "inf" THEN a
    ELSE IF b.k = "inf" THEN b
    ELSE Normalize(a.n * b.d + b.n * a.d, a.d * b.d)

JsSub(a, b) == JsAdd(a, JsMul(Num(-1), b))

\* a <= b on finite numbers
NumLeq(a, b) == a.n * b.d <= b.n * a.d

\* String.prototype.toLowerCase on the labels of the model
ToLowerCase(s) ==
    CASE s = "Male" -> "male"
      [] s = "MALE" -> "male"
      [] s = "Female" -> "female"
      [] s = "FEMALE" -> "female"
      [] s = "Other" -> "other"
      [] s = "Mobile" -> "mobile"
      [] s = "MOBILE" -> "mobile"
      [] s = "Desktop" -> "desktop"
      [] s = "Tablet" -> "tablet"
      [] OTHER -> s

\* The value of a property key that is a canonical array index ("65"), -1
\* for every other key ("18-24", "65+", "Dubai")
ArrayIndex(key) ==
    CASE key = "65" -> 65
      [] OTHER -> -1

\* A plain object: its own string keys in insertion order, and their values
EmptyObject == [keys |-> <<>>, vals |-> [x \in {} |-> 0]]

Has(o, key) == key \in DOMAIN o.vals

Get(o, key) == IF Has(o, key) THEN o.vals[key] ELSE Undefined

Put(o, key, v) ==
    [keys |-> IF Has(o, key) THEN o.keys ELSE Append(o.keys, key),
     vals |-> [x \in (DOMAIN o.vals) \cup {key} |->
                 IF x = key THEN v ELSE o.vals[x]]]

\* The pairs of elements of an array, the arguments a comparator is given
Pairs(s) == {s[i] : i \in 1..Len(s)} \X {s[i] : i \in 1..Len(s)}

\* Array.prototype.sort: stable, ordered by the comparator (before holds the
\* pairs <<a, b>> with compare(a, b) < 0); the element at i moves behind every
\* element that compares before it and every equal element that preceded it
StableSort(s, before) ==
    LET rank(i) == Cardinality({j \in 1..Len(s) :
                       \/ <<s[j], s[i]>> \in before
                       \/ (<<s[i], s[j]>> \notin before /\ j < i)}) + 1
    IN  [p \in 1..Len(s) |-> s[CHOOSE i \in 1..Len(s) : rank(i) = p]]

\* OrdinaryOwnPropertyKeys: array-index keys ascending, then the other
\* string keys in insertion order
OwnKeys(o) ==
    LET isIdx(key) == ArrayIndex(key) >= 0
        idx == SelectSeq(o.keys, isIdx)
        str == SelectSeq(o.keys, LAMBDA key : ~isIdx(key))
    IN  StableSort(idx, {p \in Pairs(idx) : ArrayIndex(p[1]) < ArrayIndex(p[2])})
        \o str

\* Object.entries / Object.values
ObjectEntries(o) ==
    LET ks == OwnKeys(o)
    IN  [i \in 1..Len(ks) |-> [key |-> ks[i], val |-> o.vals[ks[i]]]]

ObjectValues(o) ==
    LET ks == OwnKeys(o)
    IN  [i \in 1..Len(ks) |-> o.vals[ks[i]]]

-----------------------------------------------------------------------------
(* The dataset: what fetchMarketingData() can return *)

Genders == {"Male", "female", "Other"}
AgeGroups == {"18-24", "25-34", "65"}

\* PerformanceCounters, well-formed and ill-formed (clicks > impressions,
\* conversions > clicks)
Performances ==
    { [impressions |-> 0, clicks |-> 0, conversions |-> 1],
      [impressions |-> 1, clicks |-> 2, conversions |-> 0] }

\* Every gender with every counter triple for the two range labels, and the
\* numeric label "65" for male records
DemographicBreakdowns ==
    [gender : Genders, age_group : AgeGroups \ {"65"},
     performance : Performances]
    \cup
    [gender : {"Male"}, age_group : {"65"}, performance : Performances]

\* Campaign-level spend and revenue; only DemographicView reads them
CampaignTotals(v) ==
    IF v = "demographic"
    THEN { [spend |-> 0, revenue |-> 0], [spend |-> 3, revenue |-> 5] }
    ELSE { [spend |-> 3, revenue |-> 5] }

RegionNames == {"Dubai", "Abu Dhabi", "Atlantis"}

\* spend and revenue of a regional sub-record
RegionMoney ==
    { [spend |-> 10, revenue |-> 10],
      [spend |-> 50, revenue |-> 100],
      [spend |-> 40, revenue |-> 0] }

\* Every region with every spend/revenue pair, every region once more
\* under a second country, and a region whose name is a number
RegionalPerformances ==
    { [region |-> r, country |-> "UAE", spend |-> m.spend,
       revenue |-> m.revenue] : r \in RegionNames, m \in RegionMoney }
    \cup
    { [region |-> r, country |-> "Oman", spend |-> 10, revenue |-> 10]
      : r \in RegionNames }
    \cup
    { [region |-> "65", country |-> "UAE", spend |-> 10, revenue |-> 10] }

WeekStarts == {"2023-12-25", "2024-01-01", "2024-01-08", "2024-01-15"}
WeekEnds == {"2024-01-07", "2024-01-14"}

\* spend and revenue of a weekly sub-record
WeekMoney == { [spend |-> 10, revenue |-> 30], [spend |-> 20, revenue |-> 0] }

WeeklyPerformances ==
    { [week_start |-> ws, week_end |-> we, spend |-> m.spend,
       revenue |-> m.revenue]
      : ws \in WeekStarts, we \in WeekEnds, m \in WeekMoney }

DeviceLabels == {"Mobile", "mobile", "Desktop", "Tablet"}

\* Counters, spend, revenue and traffic share of a device sub-record
DeviceCounters ==
    { [impressions |-> 100, clicks |-> 10, conversions |-> 1,
       spend |-> 3, revenue |-> 5, percentage_of_traffic |-> 60],
      [impressions |-> 200, clicks |-> 20, conversions |-> 0,
       spend |-> 1, revenue |-> 0, percentage_of_traffic |-> 40],
      [impressions |-> 0, clicks |-> 0, conversions |-> 1,
       spend |-> 0, revenue |-> 0, percentage_of_traffic |-> 0],
      [impressions |-> 1, clicks |-> 2, conversions |-> 3,
       spend |-> 2, revenue |-> 1, percentage_of_traffic |-> 100] }

\* A DevicePerformance sub-record; ctr and conversion_rate are the
\* sub-record's own rates
DevicePerformances ==
    { [device |-> l,
       impressions |-> c.impressions, clicks |-> c.clicks,
       conversions |-> c.conversions, spend |-> c.spend,
       revenue |-> c.revenue,
       ctr |-> IF c.impressions > 0
               THEN JsDiv(Num(100 * c.clicks), Num(c.impressions))
               ELSE Num(0),
       conversion_rate |-> IF c.clicks > 0
                           THEN JsDiv(Num(100 * c.conversions), Num(c.clicks))
                           ELSE Num(0),
       percentage_of_traffic |-> c.percentage_of_traffic]
      : l \in DeviceLabels, c \in DeviceCounters }

NewCampaign(t) ==
    [spend |-> t.spend, revenue |-> t.revenue,
     demographic_breakdown |-> <<>>, device_performance |-> <<>>,
     regional_performance |-> <<>>, weekly_performance |-> <<>>]

RECURSIVE SumLen(_, _)
SumLen(campaigns, field) ==
    IF campaigns = <<>> THEN 0
    ELSE Len(Head(campaigns)[field]) + SumLen(Tail(campaigns), field)

\* Number of campaigns and sub-records of the dataset
DatasetSize(campaigns) ==
    Len(campaigns)
    + SumLen(campaigns, "demographic_breakdown")
    + SumLen(campaigns, "device_performance")
    + SumLen(campaigns, "regional_performance")
    + SumLen(campaigns, "weekly_performance")

\* The dataset with one more sub-record in its last campaign
AddRecord(campaigns, field, rec) ==
    [campaigns EXCEPT ![Len(campaigns)][field] = Append(@, rec)]

Views == {"demographic", "device", "region", "weekly"}

\* The sub-record array a view reads, and the records it may hold
SubField(v) ==
    CASE v = "demographic" -> "demographic_breakdown"
      [] v = "device" -> "device_performance"
      [] v = "region" -> "regional_performance"
      [] v = "weekly" -> "weekly_performance"

SubRecords(v) ==
    CASE v = "demographic" -> DemographicBreakdowns
      [] v = "device" -> DevicePerformances
      [] v = "region" -> RegionalPerformances
      [] v = "weekly" -> WeeklyPerformances

\* The datasets of at most one campaign with at most one sub-record
ViewDatasets(v) ==
    {<<>>}
    \cup {<<NewCampaign(t)>> : t \in CampaignTotals(v)}
    \cup {AddRecord(<<NewCampaign(t)>>, SubField(v), r) :
             t \in CampaignTotals(v), r \in SubRecords(v)}

\* Weekly and regional sub-records that share keys: two weeks that start
\* on one day, one week reported with two amounts, a region under two
\* amounts, a region whose name is a number
RollupRecords(v) ==
    IF v = "weekly"
    THEN {w \in WeeklyPerformances :
             \/ w.week_start = "2024-01-01" /\ w.week_end = "2024-01-07"
             \/ w.week_start = "2024-01-01" /\ w.week_end = "2024-01-14"
                   /\ w.spend = 10
             \/ w.week_start = "2024-01-08" /\ w.week_end = "2024-01-14"
                   /\ w.spend = 10}
    ELSE {r \in RegionalPerformances :
             \/ r.region = "Dubai" /\ r.country = "UAE" /\ r.spend # 40
             \/ r.region = "65"
             \/ r.region = "Atlantis" /\ r.country = "Oman"}

\* A campaign with the sub-records
CampaignWith(v, recs) ==
    [NewCampaign(CHOOSE t \in CampaignTotals(v) : TRUE)
        EXCEPT ![SubField(v)] = recs]

\* The datasets of at most two campaigns, each with at most
\* MaxCampaignRecords sub-records
RollupDatasets(v) ==
    LET lists == UNION {[1..n -> RollupRecords(v)] :
                           n \in 0..MaxCampaignRecords}
    IN  {<<>>}
        \cup {<<CampaignWith(v, a)>> : a \in lists}
        \cup {<<CampaignWith(v, p[1]), CampaignWith(v, p[2])>> :
                 p \in lists \X lists}

\* A dataset object that carries no campaign list
DatasetWithoutCampaigns == [version |-> "1"]

\* Mutant: an empty campaign list counted as absent (!campaigns?.length)
HasCampaignsNotEmpty(data) ==
    "campaigns" \in DOMAIN data /\ data.campaigns # <<>>

\* marketingData?.campaigns is truthy: the dataset is present and has a
\* campaign list, which may be empty
HasCampaigns(data) == "campaigns" \in DOMAIN data

-----------------------------------------------------------------------------
(* DemographicView: demographicMetrics *)

EmptyCounters == [impressions |-> 0, clicks |-> 0, conversions |-> 0]

\* maleAgeGroupData[demo.age_group] created on first sight, then += counters
AddAgeGroupData(data, demo) ==
    LET cur == IF Has(data, demo.age_group) THEN data.vals[demo.age_group]
               ELSE EmptyCounters
    IN  Put(data, demo.age_group,
            [impressions |-> cur.impressions + demo.performance.impressions,
             clicks |-> cur.clicks + demo.performance.clicks,
             conversions |-> cur.conversions + demo.performance.conversions])

\* Mutant: the gender compared without toLowerCase()
IsMaleCaseSensitive(demo) == demo.gender = "male"

IsMale(demo) == ToLowerCase(demo.gender) = "male"

IsFemale(demo) == ToLowerCase(demo.gender) = "female"

\* ageGroupClicks[demo.age_group]: reset to 0 when absent or 0, then += clicks
AddAgeGroupClicks(o, demo) ==
    LET cur == IF Has(o, demo.age_group) /\ o.vals[demo.age_group] # 0
               THEN o.vals[demo.age_group] ELSE 0
    IN  Put(o, demo.age_group, cur + demo.performance.clicks)

\* Body of campaign.demographic_breakdown.forEach
DemoStep(acc, demo) ==
    LET clicks == demo.performance.clicks
    IN  [acc EXCEPT
            !.totalClicks = @ + clicks,
            !.maleClicks = IF IsMale(demo) THEN @ + clicks ELSE @,
            !.maleAgeGroupData =
                IF IsMale(demo) THEN AddAgeGroupData(@, demo) ELSE @,
            !.femaleClicks =
                IF ~IsMale(demo) /\ IsFemale(demo) THEN @ + clicks ELSE @,
            !.femaleAgeGroupData =
                IF ~IsMale(demo) /\ IsFemale(demo)
                THEN AddAgeGroupData(@, demo) ELSE @,
            !.ageGroupClicks = AddAgeGroupClicks(@, demo)]

RECURSIVE DemoFold(_, _)
DemoFold(acc, demos) ==
    IF demos = <<>> THEN acc
    ELSE DemoFold(DemoStep(acc, Head(demos)), Tail(demos))

\* Body of marketingData.campaigns.forEach
DemoCampaignStep(acc, campaign) ==
    DemoFold([acc EXCEPT !.totalSpend = @ + campaign.spend,
                         !.totalRevenue = @ + campaign.revenue],
             campaign.demographic_breakdown)

RECURSIVE DemoCampaignFold(_, _)
DemoCampaignFold(acc, campaigns) ==
    IF campaigns = <<>> THEN acc
    ELSE DemoCampaignFold(DemoCampaignStep(acc, Head(campaigns)),
                          Tail(campaigns))

DemoTotals(campaigns) ==
    DemoCampaignFold(
        [totalClicks |-> 0, maleClicks |-> 0, femaleClicks |-> 0,
         totalSpend |-> 0, totalRevenue |-> 0,
         ageGroupClicks |-> EmptyObject,
         maleAgeGroupData |-> EmptyObject,
         femaleAgeGroupData |-> EmptyObject],
        campaigns)

\* Mutant: the ratio without its totalClicks > 0 guard
ClickRatioUnguarded(clicks, totalClicks) ==
    JsDiv(Num(clicks), Num(totalClicks))

\* totalClicks > 0 ? clicks / totalClicks : 0
ClickRatio(clicks, totalClicks) ==
    IF totalClicks > 0 THEN JsDiv(Num(clicks), Num(totalClicks)) ELSE Num(0)

\* Mutant: the comparator with its operands swapped (ascending)
ByClicksAsc(a, b) == a.clicks - b.clicks < 0

\* (a, b) => b.clicks - a.clicks
ByClicksDesc(a, b) == b.clicks - a.clicks < 0

AgeGroupData(t) ==
    LET es == ObjectEntries(t.ageGroupClicks)
        rows == [i \in 1..Len(es) |->
                   LET clickRatio == ClickRatio(es[i].val, t.totalClicks)
                   IN  [ageGroup |-> es[i].key,
                        clicks |-> es[i].val,
                        spend |-> JsMul(Num(t.totalSpend), clickRatio),
                        revenue |-> JsMul(Num(t.totalRevenue), clickRatio)]]
    IN  StableSort(rows, {p \in Pairs(rows) : ByClicksDesc(p[1], p[2])})

\* impressions > 0 ? (clicks / impressions) * 100 : 0
Ctr(clicks, impressions) ==
    IF impressions > 0
    THEN JsMul(JsDiv(Num(clicks), Num(impressions)), Num(100))
    ELSE Num(0)

\* clicks > 0 ? (conversions / clicks) * 100 : 0
ConversionRate(conversions, clicks) ==
    IF clicks > 0
    THEN JsMul(JsDiv(Num(conversions), Num(clicks)), Num(100))
    ELSE Num(0)

\* maleTableData / femaleTableData
TableData(ageGroupObject) ==
    LET es == ObjectEntries(ageGroupObject)
        rows == [i \in 1..Len(es) |->
                   [ageGroup |-> es[i].key,
                    impressions |-> es[i].val.impressions,
                    clicks |-> es[i].val.clicks,
                    conversions |-> es[i].val.conversions,
                    ctr |-> Ctr(es[i].val.clicks, es[i].val.impressions),
                    conversionRate |->
                        ConversionRate(es[i].val.conversions, es[i].val.clicks)]]
    IN  StableSort(rows, {p \in Pairs(rows) : ByClicksDesc(p[1], p[2])})

DemographicMetrics(data) ==
    IF ~HasCampaigns(data) THEN Null
    ELSE
    LET t == DemoTotals(data.campaigns)
        maleClickRatio == ClickRatio(t.maleClicks, t.totalClicks)
        femaleClickRatio == ClickRatio(t.femaleClicks, t.totalClicks)
    IN  [maleClicks |-> t.maleClicks,
         femaleClicks |-> t.femaleClicks,
         maleSpend |-> JsMul(Num(t.totalSpend), maleClickRatio),
         femaleSpend |-> JsMul(Num(t.totalSpend), femaleClickRatio),
         maleRevenue |-> JsMul(Num(t.totalRevenue), maleClickRatio),
         femaleRevenue |-> JsMul(Num(t.totalRevenue), femaleClickRatio),
         ageGroupData |-> AgeGroupData(t),
         maleTableData |-> TableData(t.maleAgeGroupData),
         femaleTableData |-> TableData(t.femaleAgeGroupData)]

-----------------------------------------------------------------------------
(* DeviceView: deviceMetrics *)

\* Mutant: percentage_of_traffic summed like the other fields
DeviceStepSummed(deviceMap, device) ==
    LET deviceKey == ToLowerCase(device.device)
        cur == IF Has(deviceMap, deviceKey) THEN deviceMap.vals[deviceKey]
               ELSE [device |-> device.device, impressions |-> 0,
                     clicks |-> 0, conversions |-> 0, spend |-> 0,
                     revenue |-> 0, ctr |-> Num(0),
                     conversion_rate |-> Num(0), percentage_of_traffic |-> 0]
    IN  Put(deviceMap, deviceKey,
            [cur EXCEPT !.impressions = @ + device.impressions,
                        !.clicks = @ + device.clicks,
                        !.conversions = @ + device.conversions,
                        !.spend = @ + device.spend,
                        !.revenue = @ + device.revenue,
                        !.percentage_of_traffic =
                            @ + device.percentage_of_traffic])

\* Mutant: the grouping key taken without toLowerCase()
DeviceStepCaseSensitive(deviceMap, device) ==
    LET deviceKey == device.device
        cur == IF Has(deviceMap, deviceKey) THEN deviceMap.vals[deviceKey]
               ELSE [device |-> device.device, impressions |-> 0,
                     clicks |-> 0, conversions |-> 0, spend |-> 0,
                     revenue |-> 0, ctr |-> Num(0),
                     conversion_rate |-> Num(0), percentage_of_traffic |-> 0]
    IN  Put(deviceMap, deviceKey,
            [cur EXCEPT !.impressions = @ + device.impressions,
                        !.clicks = @ + device.clicks,
                        !.conversions = @ + device.conversions,
                        !.spend = @ + device.spend,
                        !.revenue = @ + device.revenue,
                        !.percentage_of_traffic = device.percentage_of_traffic])

\* Body of campaign.device_performance.forEach: the entry is created with
\* zero counters on first sight of the key, the five counters are added and
\* percentage_of_traffic is overwritten
DeviceStep(deviceMap, device) ==
    LET deviceKey == ToLowerCase(device.device)
        cur == IF Has(deviceMap, deviceKey) THEN deviceMap.vals[deviceKey]
               ELSE [device |-> device.device, impressions |-> 0,
                     clicks |-> 0, conversions |-> 0, spend |-> 0,
                     revenue |-> 0, ctr |-> Num(0),
                     conversion_rate |-> Num(0), percentage_of_traffic |-> 0]
    IN  Put(deviceMap, deviceKey,
            [cur EXCEPT !.impressions = @ + device.impressions,
                        !.clicks = @ + device.clicks,
                        !.conversions = @ + device.conversions,
                        !.spend = @ + device.spend,
                        !.revenue = @ + device.revenue,
                        !.percentage_of_traffic = device.percentage_of_traffic])

RECURSIVE DeviceFold(_, _)
DeviceFold(deviceMap, devices) ==
    IF devices = <<>> THEN deviceMap
    ELSE DeviceFold(DeviceStep(deviceMap, Head(devices)), Tail(devices))

RECURSIVE DeviceCampaignFold(_, _)
DeviceCampaignFold(deviceMap, campaigns) ==
    IF campaigns = <<>> THEN deviceMap
    ELSE DeviceCampaignFold(
             DeviceFold(deviceMap, Head(campaigns).device_performance),
             Tail(campaigns))

\* Mutant: the rates without their zero guards
DeviceRatesUnguarded(device) ==
    [device EXCEPT
        !.ctr = JsMul(JsDiv(Num(device.clicks), Num(device.impressions)),
                      Num(100)),
        !.conversion_rate =
            JsMul(JsDiv(Num(device.conversions), Num(device.clicks)),
                  Num(100))]

\* Body of Object.values(deviceMap).forEach: the rates recomputed from the
\* summed counters
DeviceRates(device) ==
    [device EXCEPT
        !.ctr = IF device.impressions > 0
                THEN JsMul(JsDiv(Num(device.clicks), Num(device.impressions)),
                           Num(100))
                ELSE Num(0),
        !.conversion_rate =
            IF device.clicks > 0
            THEN JsMul(JsDiv(Num(device.conversions), Num(device.clicks)),
                       Num(100))
            ELSE Num(0)]

DeviceMetrics(data) ==
    IF ~HasCampaigns(data) THEN Null
    ELSE
    LET summed == DeviceCampaignFold(EmptyObject, data.campaigns)
        deviceMap == [summed EXCEPT
                         !.vals = [key \in DOMAIN summed.vals |->
                                     DeviceRates(summed.vals[key])]]
    IN  [mobile |-> Get(deviceMap, "mobile"),
         desktop |-> Get(deviceMap, "desktop")]

\* Number.prototype.toFixed(1): "NaN" and "Infinity" for the specials,
\* otherwise the number of tenths nearest to x, the larger magnitude on a tie
ToFixed1(x) ==
    IF x.k = "nan" THEN [text |-> "NaN", tenths |-> 0]
    ELSE IF x.k = "inf"
         THEN [text |-> IF x.n > 0 THEN "Infinity" ELSE "-Infinity",
               tenths |-> 0]
    ELSE [text |-> "number",
          tenths |-> Sign(x.n) * ((2 * Abs(x.n) * 10 + x.d) \div (2 * x.d))]

\* (mobile.field / desktop.field) * 100
MobileVsDesktop(metrics, field) ==
    JsMul(JsDiv(Num(metrics.mobile[field]), Num(metrics.desktop[field])),
          Num(100))

\* The "Performance Comparison" block: the three percentages shown, '0' when
\* one of the two summaries is missing
PerformanceComparison(metrics) ==
    [field \in {"clicks", "conversions", "revenue"} |->
        IF metrics.mobile # Undefined /\ metrics.desktop # Undefined
        THEN ToFixed1(MobileVsDesktop(metrics, field))
        ELSE [text |-> "number", tenths |-> 0]]

-----------------------------------------------------------------------------
(* RegionView: regionalData *)

\* uaeCoordinates of the region page, in 1/10000 degree
uaeCoordinatesRegionView ==
    ("Dubai" :> [lat |-> 252048, lng |-> 552708])
    @@ ("Sharjah" :> [lat |-> 253463, lng |-> 554209])
    @@ ("Abu Dhabi" :> [lat |-> 244539, lng |-> 543773])
    @@ ("Ajman" :> [lat |-> 254052, lng |-> 555136])
    @@ ("Ras Al Khaimah" :> [lat |-> 256741, lng |-> 559804])
    @@ ("Fujairah" :> [lat |-> 251288, lng |-> 563265])
    @@ ("Umm Al Quwain" :> [lat |-> 255653, lng |-> 555533])
    @@ ("Al Ain" :> [lat |-> 241302, lng |-> 558023])
    @@ ("Riyadh" :> [lat |-> 247136, lng |-> 466753])
    @@ ("Jeddah" :> [lat |-> 214858, lng |-> 391925])
    @@ ("Doha" :> [lat |-> 252854, lng |-> 515310])
    @@ ("Muscat" :> [lat |-> 235880, lng |-> 583829])
    @@ ("Manama" :> [lat |-> 262235, lng |-> 505876])
    @@ ("Kuwait City" :> [lat |-> 293759, lng |-> 479774])
    @@ ("Cairo" :> [lat |-> 300444, lng |-> 312357])
    @@ ("London" :> [lat |-> 515074, lng |-> -1278])
    @@ ("New York" :> [lat |-> 407128, lng |-> -740060])
    @@ ("Tokyo" :> [lat |-> 356762, lng |-> 1396503])
    @@ ("Singapore" :> [lat |-> 13521, lng |-> 1038198])
    @@ ("Mumbai" :> [lat |-> 190760, lng |-> 728777])

\* uaeCoordinates[region] || { lat: 24.0, lng: 54.0 }
RegionCoords(region) ==
    IF region \in DOMAIN uaeCoordinatesRegionView
    THEN uaeCoordinatesRegionView[region]
    ELSE [lat |-> 240000, lng |-> 540000]

\* Mutant: the country of the last record of a region instead of the first
RegionStepLastCountry(regionMap, region) ==
    LET cur == IF Has(regionMap, region.region)
               THEN regionMap.vals[region.region]
               ELSE [spend |-> 0, revenue |-> 0, country |-> region.country]
    IN  Put(regionMap, region.region,
            [cur EXCEPT !.spend = @ + region.spend,
                        !.revenue = @ + region.revenue,
                        !.country = region.country])

\* Body of campaign.regional_performance.forEach
RegionStep(regionMap, region) ==
    LET cur == IF Has(regionMap, region.region)
               THEN regionMap.vals[region.region]
               ELSE [spend |-> 0, revenue |-> 0, country |-> region.country]
    IN  Put(regionMap, region.region,
            [cur EXCEPT !.spend = @ + region.spend,
                        !.revenue = @ + region.revenue])

RECURSIVE RegionFold(_, _)
RegionFold(regionMap, regions) ==
    IF regions = <<>> THEN regionMap
    ELSE RegionFold(RegionStep(regionMap, Head(regions)), Tail(regions))

RECURSIVE RegionCampaignFold(_, _)
RegionCampaignFold(regionMap, campaigns) ==
    IF campaigns = <<>> THEN regionMap
    ELSE RegionCampaignFold(
             RegionFold(regionMap, Head(campaigns).regional_performance),
             Tail(campaigns))

\* Object.entries(regionMap).map(...) for revenueData ("revenue") and
\* spendData ("spend")
HeatPoints(regionMap, field) ==
    LET es == ObjectEntries(regionMap)
    IN  [i \in 1..Len(es) |->
           LET coords == RegionCoords(es[i].key)
           IN  [region |-> es[i].key,
                country |-> es[i].val.country,
                value |-> es[i].val[field],
                lat |-> coords.lat,
                lng |-> coords.lng]]

RegionalData(data) ==
    IF ~HasCampaigns(data) THEN Null
    ELSE
    LET regionMap == RegionCampaignFold(EmptyObject, data.campaigns)
    IN  [revenueData |-> HeatPoints(regionMap, "revenue"),
         spendData |-> HeatPoints(regionMap, "spend")]

-----------------------------------------------------------------------------
(* HeatMap *)

\* uaeCoordinates of the HeatMap component, in 1/10000 degree
uaeCoordinates ==
    ("Dubai" :> [lat |-> 252048, lng |-> 552708])
    @@ ("Sharjah" :> [lat |-> 253463, lng |-> 554209])
    @@ ("Abu Dhabi" :> [lat |-> 244539, lng |-> 543773])
    @@ ("Ajman" :> [lat |-> 254052, lng |-> 555136])
    @@ ("Ras Al Khaimah" :> [lat |-> 256741, lng |-> 559804])
    @@ ("Fujairah" :> [lat |-> 251288, lng |-> 563265])
    @@ ("Umm Al Quwain" :> [lat |-> 255653, lng |-> 555533])
    @@ ("Al Ain" :> [lat |-> 241302, lng |-> 558023])
    @@ ("Riyadh" :> [lat |-> 247136, lng |-> 466753])
    @@ ("Jeddah" :> [lat |-> 214858, lng |-> 391925])
    @@ ("Doha" :> [lat |-> 252854, lng |-> 515310])
    @@ ("Muscat" :> [lat |-> 235880, lng |-> 583829])
    @@ ("Manama" :> [lat |-> 262235, lng |-> 505876])
    @@ ("Kuwait City" :> [lat |-> 293759, lng |-> 479774])
    @@ ("Cairo" :> [lat |-> 300444, lng |-> 312357])
    @@ ("London" :> [lat |-> 515074, lng |-> -1278])
    @@ ("New York" :> [lat |-> 407128, lng |-> -740060])
    @@ ("Tokyo" :> [lat |-> 356762, lng |-> 1396503])
    @@ ("Singapore" :> [lat |-> 13521, lng |-> 1038198])
    @@ ("Mumbai" :> [lat |-> 190760, lng |-> 728777])

\* Mutant: a fallback coordinate other than the region page's
HeatMapCoordsOtherDefault(region) ==
    IF region \in DOMAIN uaeCoordinates
    THEN uaeCoordinates[region]
    ELSE [lat |-> 252048, lng |-> 552708]

\* uaeCoordinates[point.region] || { lat: 24.0, lng: 54.0 }
HeatMapCoords(region) ==
    IF region \in DOMAIN uaeCoordinates
    THEN uaeCoordinates[region]
    ELSE [lat |-> 240000, lng |-> 540000]

colorScale ==
    << "#3B82F6", "#10B981", "#F59E0B", "#EF4444", "#8B5CF6",
       "#06B6D4", "#84CC16", "#F97316", "#EC4899", "#6366F1" >>

\* point.color || colorScale[index % colorScale.length], index from 0
PointColor(point, index) ==
    IF "color" \in DOMAIN point THEN point.color
    ELSE colorScale[(index % Len(colorScale)) + 1]

RECURSIVE MaxOf(_)
MaxOf(values) ==
    IF Len(values) = 1 THEN values[1]
    ELSE LET m == MaxOf(Tail(values))
         IN  IF values[1] >= m THEN values[1] ELSE m

RECURSIVE MinOf(_)
MinOf(values) ==
    IF Len(values) = 1 THEN values[1]
    ELSE LET m == MinOf(Tail(values))
         IN  IF values[1] <= m THEN values[1] ELSE m

\* Mutant: the normalisation without its maxValue === minValue case
NormalizedUnguarded(value, minValue, maxValue) ==
    JsDiv(Num(value - minValue), Num(maxValue - minValue))

\* maxValue === minValue ? 0.5 : (value - minValue) / (maxValue - minValue)
Normalized(value, minValue, maxValue) ==
    IF maxValue = minValue THEN JsDiv(Num(1), Num(2))
    ELSE JsDiv(Num(value - minValue), Num(maxValue - minValue))

\* Body of data.forEach((point, index) => ...): the circle and the marker
HeatCircle(point, index, minValue, maxValue) ==
    LET coords == HeatMapCoords(point.region)
        normalized == Normalized(point.value, minValue, maxValue)
    IN  [region |-> point.region,
         value |-> point.value,
         lat |-> coords.lat,
         lng |-> coords.lng,
         radius |-> JsAdd(Num(10000), JsMul(normalized, Num(150000))),
         color |-> PointColor(point, index),
         markerLat |-> coords.lat,
         markerLng |-> coords.lng]

\* The map loadLeaflet builds for a non-empty data array
HeatMapInstance(data) ==
    LET values == [i \in 1..Len(data) |-> data[i].value]
        maxValue == MaxOf(values)
        minValue == MinOf(values)
    IN  [circles |-> [i \in 1..Len(data) |->
                        HeatCircle(data[i], i - 1, minValue, maxValue)]]

\* data.sort((a, b) => b.value - a.value): sorts the array in place
SortByValueDesc(data) ==
    StableSort(data, {p \in Pairs(data) : p[2].value - p[1].value < 0})

\* The rows of the side table, over the sorted array
HeatMapTable(sorted) ==
    [i \in 1..Len(sorted) |->
       [region |-> sorted[i].region,
        country |-> sorted[i].country,
        value |-> sorted[i].value,
        color |-> PointColor(sorted[i], i - 1)]]

\* A HeatMap after its first render: the empty state, or the table over the
\* array it has just sorted; the effect has started the import of leaflet
MountHeatMap(data) ==
    [leafletLoaded |-> FALSE,
     importing |-> TRUE,
     mapInstanceRef |-> Null,
     empty |-> (data = <<>>),
     table |-> IF data = <<>> THEN <<>>
               ELSE HeatMapTable(SortByValueDesc(data))]

\* The import of leaflet completes: setLeafletLoaded(true), and with a map
\* container and data the map is built and kept in mapInstanceRef.  When
\* leafletLoaded changed, the render that follows runs the effect's cleanup
\* (the map is removed, the ref cleared) and starts the effect again.
LeafletLoaded(hm, data) ==
    IF ~hm.leafletLoaded
    THEN [hm EXCEPT !.leafletLoaded = TRUE,
                    !.importing = TRUE,
                    !.mapInstanceRef = Null]
    ELSE [hm EXCEPT !.importing = FALSE,
                    !.mapInstanceRef =
                        IF data = <<>> THEN Null ELSE HeatMapInstance(data)]

-----------------------------------------------------------------------------
(* HeatMap as a component of its own: renders, effect runs, cleanup *)

HeatMapPoint(region, value) ==
    [region |-> region, country |-> "UAE", value |-> value,
     lat |-> RegionCoords(region).lat, lng |-> RegionCoords(region).lng]

\* The data props a caller may pass
HeatMapInputs ==
    { <<>>,
      <<HeatMapPoint("Dubai", 10)>>,
      <<HeatMapPoint("Dubai", 10), HeatMapPoint("Abu Dhabi", 50)>>,
      <<HeatMapPoint("Atlantis", 50), HeatMapPoint("Dubai", 50)>> }

\* Mutant: the container is rendered whatever the data
HasContainerAlways(hm) == hm.mounted

\* mapRef.current: the map container is rendered while the component is
\* mounted with data
HasContainer(hm) == hm.mounted /\ hm.data # <<>>

\* The render of a HeatMap: the empty state, or the container and the table
\* over the data array, which the render sorts in place
HeatMapRender(hm, data) ==
    [hm EXCEPT !.data = SortByValueDesc(data),
               !.empty = (data = <<>>),
               !.table = IF data = <<>> THEN <<>>
                         ELSE HeatMapTable(SortByValueDesc(data)),
               !.renderDue = FALSE]

\* The effect body: loadLeaflet() starts and waits for import('leaflet'),
\* holding the data array of its render
HeatMapEffect(hm) == [hm EXCEPT !.runs = Append(@, [data |-> hm.data])]

\* Mutant: a cleanup that clears the ref and leaves the map in place
HeatMapCleanupKeepsMap(hm) == [hm EXCEPT !.mapInstanceRef = Null]

\* The effect's cleanup: the map in mapInstanceRef ([map |-> its position
\* among the maps created]) is removed, which frees
\* its container, and the ref is cleared
HeatMapCleanup(hm) ==
    IF hm.mapInstanceRef = Null THEN hm
    ELSE [hm EXCEPT !.maps[hm.mapInstanceRef.map].removed = TRUE,
                    !.container = Null,
                    !.mapInstanceRef = Null]

\* A HeatMap after its first render and the start of its effect
HeatMapMount(data) ==
    HeatMapEffect(HeatMapRender(
        [data |-> data, mounted |-> TRUE, leafletLoaded |-> FALSE,
         renderDue |-> FALSE, runs |-> <<>>, maps |-> <<>>,
         mapInstanceRef |-> Null, container |-> Null, propsRenders |-> 0,
         empty |-> FALSE, table |-> <<>>], data))

\* The rest of loadLeaflet() once the import of run i has resolved:
\* setLeafletLoaded(true); without a container or data it returns; L.map
\* throws on a container that holds a map, which the catch logs; otherwise
\* the map is built over the data of the run and kept in mapInstanceRef
HeatMapImported(hm, i) ==
    LET run == hm.runs[i]
        rest == [hm EXCEPT
                    !.runs = SubSeq(hm.runs, 1, i - 1)
                             \o SubSeq(hm.runs, i + 1, Len(hm.runs)),
                    !.leafletLoaded = hm.leafletLoaded \/ hm.mounted,
                    !.renderDue = hm.renderDue
                                  \/ (hm.mounted /\ ~hm.leafletLoaded)]
    IN  IF ~HasContainer(hm) \/ run.data = <<>> THEN rest
        ELSE IF hm.container # Null THEN rest
        ELSE [rest EXCEPT
                 !.maps = Append(@, [instance |-> HeatMapInstance(run.data),
                                     removed |-> FALSE]),
                 !.container = [map |-> Len(hm.maps) + 1],
                 !.mapInstanceRef = [map |-> Len(hm.maps) + 1]]

\* A render after which the effect's dependencies differ: the cleanup of the
\* previous effect runs, then the effect again.  A container that was not
\* rendered before is a new element.
HeatMapRerender(hm, data) ==
    LET rendered == HeatMapRender(hm, data)
        cleaned == HeatMapCleanup(
                       [rendered EXCEPT
                           !.container = IF hm.data = <<>> \/ data = <<>>
                                         THEN Null ELSE hm.container])
    IN  HeatMapEffect(cleaned)

\* The component is removed from the page: the container goes and the
\* cleanup of the last effect runs
HeatMapUnmounted(hm) ==
    HeatMapCleanup([hm EXCEPT !.mounted = FALSE, !.renderDue = FALSE])

-----------------------------------------------------------------------------
(* WeeklyView: weeklyChartData *)

\* `${week.week_start} to ${week.week_end}`
WeekKey(week) == week.week_start \o " to " \o week.week_end

\* weekLabel.split(' to ')[0]
SplitStart(weekLabel) ==
    CHOOSE ws \in WeekStarts :
        \E we \in WeekEnds : weekLabel = ws \o " to " \o we

\* new Date(start).getTime() of an ISO date, in days since 1970-01-01
DateGetTime(start) ==
    CASE start = "2023-12-25" -> 19716
      [] start = "2024-01-01" -> 19723
      [] start = "2024-01-08" -> 19730
      [] start = "2024-01-15" -> 19737

\* Mutant: spend and revenue assigned instead of added
WeekStepOverwrites(weeklyData, week) ==
    LET weekKey == WeekKey(week)
        cur == IF Has(weeklyData, weekKey) THEN weeklyData.vals[weekKey]
               ELSE [spend |-> 0, revenue |-> 0, weekLabel |-> weekKey]
    IN  Put(weeklyData, weekKey,
            [cur EXCEPT !.spend = week.spend,
                        !.revenue = week.revenue])

\* Body of campaign.weekly_performance.forEach
WeekStep(weeklyData, week) ==
    LET weekKey == WeekKey(week)
        cur == IF Has(weeklyData, weekKey) THEN weeklyData.vals[weekKey]
               ELSE [spend |-> 0, revenue |-> 0, weekLabel |-> weekKey]
    IN  Put(weeklyData, weekKey,
            [cur EXCEPT !.spend = @ + week.spend,
                        !.revenue = @ + week.revenue])

RECURSIVE WeekFold(_, _)
WeekFold(weeklyData, weeks) ==
    IF weeks = <<>> THEN weeklyData
    ELSE WeekFold(WeekStep(weeklyData, Head(weeks)), Tail(weeks))

RECURSIVE WeekCampaignFold(_, _)
WeekCampaignFold(weeklyData, campaigns) ==
    IF campaigns = <<>> THEN weeklyData
    ELSE WeekCampaignFold(
             WeekFold(weeklyData, Head(campaigns).weekly_performance),
             Tail(campaigns))

\* Mutant: the comparator with its operands swapped (latest week first)
WeekBeforeSwapped(a, b) ==
    DateGetTime(SplitStart(b.weekLabel))
        - DateGetTime(SplitStart(a.weekLabel)) < 0

\* new Date(aStart).getTime() - new Date(bStart).getTime() < 0
WeekBefore(a, b) ==
    DateGetTime(SplitStart(a.weekLabel))
        - DateGetTime(SplitStart(b.weekLabel)) < 0

WeeklyChartData(data) ==
    IF ~HasCampaigns(data) THEN Null
    ELSE
    LET weeklyData == WeekCampaignFold(EmptyObject, data.campaigns)
        values == ObjectValues(weeklyData)
        sortedWeeks ==
            StableSort(values, {p \in Pairs(values) : WeekBefore(p[1], p[2])})
    IN  [spendData |-> [i \in 1..Len(sortedWeeks) |->
                          [label |-> SplitStart(sortedWeeks[i].weekLabel),
                           value |-> sortedWeeks[i].spend]],
         revenueData |-> [i \in 1..Len(sortedWeeks) |->
                            [label |-> SplitStart(sortedWeeks[i].weekLabel),
                             value |-> sortedWeeks[i].revenue]]]

-----------------------------------------------------------------------------
(* LineChart *)

chartWidth == 600
padding == 80

\* Mutant: the labels without the Set, repeated as they occur
UniqueKeepsAll(labels, seen) == labels

RECURSIVE Unique(_, _)
\* [...new Set(labels)]: each label once, in first-seen order
Unique(labels, seen) ==
    IF labels = <<>> THEN <<>>
    ELSE IF Head(labels) \in seen THEN Unique(Tail(labels), seen)
    ELSE <<Head(labels)>> \o Unique(Tail(labels), seen \cup {Head(labels)})

RECURSIVE FlatMap(_, _)
\* series.flatMap(s => s.data.map(d => d[field]))
FlatMap(series, field) ==
    IF series = <<>> THEN <<>>
    ELSE [i \in 1..Len(Head(series).data) |-> Head(series).data[i][field]]
         \o FlatMap(Tail(series), field)

\* allLabels.indexOf(label), from 0, -1 when absent
IndexOf(allLabels, label) ==
    IF \E i \in 1..Len(allLabels) : allLabels[i] = label
    THEN (CHOOSE i \in 1..Len(allLabels) :
              /\ allLabels[i] = label
              /\ \A j \in 1..(i - 1) : allLabels[j] # label) - 1
    ELSE -1

\* padding + (index / (allLabels.length - 1)) * (chartWidth - 2 * padding)
PointX(index, labelCount) ==
    JsAdd(Num(padding),
          JsMul(JsDiv(Num(index), Num(labelCount - 1)),
                Num(chartWidth - 2 * padding)))

\* yAxisRange || 1
OrOne(x) == IF x.k = "nan" \/ (x.k = "fin" /\ x.n = 0) THEN Num(1) ELSE x

\* Mutant: the divisor without its || 1
PointYUnguarded(value, maxValue, yAxisRange, chartHeight) ==
    JsAdd(Num(padding),
          JsMul(JsDiv(JsSub(Num(maxValue), value), yAxisRange),
                Num(chartHeight - 2 * padding)))

\* padding + ((maxValue - value) / (yAxisRange || 1)) * (chartHeight - 2 * padding)
PointY(value, maxValue, yAxisRange, chartHeight) ==
    JsAdd(Num(padding),
          JsMul(JsDiv(JsSub(Num(maxValue), value), OrOne(yAxisRange)),
                Num(chartHeight - 2 * padding)))

\* getPointPosition(index, value)
GetPointPosition(index, value, labelCount, maxValue, yAxisRange, chartHeight) ==
    [x |-> PointX(index, labelCount),
     y |-> PointY(Num(value), maxValue, yAxisRange, chartHeight)]

\* The chart a LineChart renders for its series
LineChart(series, height) ==
    IF series = <<>> \/ \A i \in 1..Len(series) : series[i].data = <<>>
    THEN [empty |-> TRUE, allLabels |-> <<>>, labelX |-> <<>>, lines |-> <<>>]
    ELSE
    LET allLabels == Unique(FlatMap(series, "label"), {})
        allValues == FlatMap(series, "value")
        maxValue == MaxOf(allValues)
        minValue == MinOf(allValues)
        yAxisMin == IF minValue >= 0 THEN Num(0)
                    ELSE JsMul(Num(minValue), JsDiv(Num(11), Num(10)))
        yAxisRange == JsSub(Num(maxValue), yAxisMin)
        chartHeight == height - 120
        pos(point) ==
            GetPointPosition(IndexOf(allLabels, point.label), point.value,
                             Len(allLabels), maxValue, yAxisRange, chartHeight)
        \* data.map(...): the points whose label has an index, in data order
        found(data) ==
            SelectSeq(data, LAMBDA d : IndexOf(allLabels, d.label) # -1)
        \* createPath, and the circles drawn over the same positions
        path(data) == [i \in 1..Len(found(data)) |-> pos(found(data)[i])]
        \* the labelIndex of each vertex
        indexes(data) ==
            [i \in 1..Len(found(data)) |->
                IndexOf(allLabels, found(data)[i].label)]
    IN  [empty |-> FALSE,
         maxValue |-> maxValue,
         yAxisMin |-> yAxisMin,
         yAxisRange |-> yAxisRange,
         chartHeight |-> chartHeight,
         allLabels |-> allLabels,
         labelX |-> [i \in 1..Len(allLabels) |->
                       PointX(i - 1, Len(allLabels))],
         lines |-> [i \in 1..Len(series) |->
                      [name |-> series[i].name,
                       path |-> path(series[i].data),
                       circles |-> path(series[i].data),
                       labelIndex |-> indexes(series[i].data)]]]

\* height = 300
DefaultHeight == 300

\* The series a caller may pass: up to two named series, each with up to
\* MaxSeriesPoints points over two labels and values of either sign
ChartPoints ==
    [label : {"W1", "W2"}, value : {-10, 0, 10}]

ChartData ==
    UNION {[1..n -> ChartPoints] : n \in 0..MaxSeriesPoints}

LineChartInputs ==
    {<<>>}
    \cup {<<[name |-> "Revenue", data |-> d]>> : d \in ChartData}
    \cup {<<[name |-> "Revenue", data |-> d[1]],
            [name |-> "Spend", data |-> d[2]]>> : d \in ChartData \X ChartData}

-----------------------------------------------------------------------------
(* The fetch lifecycle shared by the four views *)

\* What a failed fetch throws: an Error with its message, or a value that
\* is no Error
Failures ==
    { [type |-> "Error", message |-> "Network error"],
      [type |-> "Error", message |-> ""],
      [type |-> "string", value |-> "timeout"] }

\* A string held by a state of type string | null
JsString(s) == [string |-> s]

\* err instanceof Error ? err.message : 'Failed to load data'
CatchMessage(err) ==
    IF err.type = "Error" THEN err.message ELSE "Failed to load data"

InitView(v) ==
    /\ view = v
    /\ source = <<>>
    /\ pc = "pending"
    /\ marketingData = Null
    /\ error = Null
    /\ rejection = Null
    /\ loading = TRUE
    /\ demographicMetrics = Null
    /\ deviceMetrics = Null
    /\ regionalData = Null
    /\ weeklyChartData = Null
    /\ heatMaps = Null
    /\ lineChart = Null
    /\ fetches = 1
    /\ heatMap = Null
    /\ chartSeries = Null

\* The components that are modelled on their own are not part of a page
componentState == <<heatMap, chartSeries>>

viewState == <<view, pc, marketingData, error, rejection, loading, demographicMetrics,
               deviceMetrics, regionalData, weeklyChartData, heatMaps,
               lineChart, fetches, componentState>>

\* Mutant: the effect without its dependency array runs after every render
LoadDataEffectRunsAlways(firstRender) == TRUE

\* useEffect(() => { ...; loadData(); }, []): with the empty dependency
\* array the effect runs after the first render only
LoadDataEffectRuns(firstRender) == firstRender

\* A render of the page after a state change: its effects run, and an
\* effect that runs calls fetchMarketingData()
Rerender ==
    /\ fetches' = IF LoadDataEffectRuns(FALSE) THEN fetches + 1 ELSE fetches
    /\ UNCHANGED componentState

\* The data source gains a campaign while the fetch is pending
SourceAddCampaign ==
    /\ pc = "pending"
    /\ DatasetSize(source) < MaxDatasetSize
    /\ \E t \in CampaignTotals(view) : source' = Append(source, NewCampaign(t))
    /\ UNCHANGED viewState

SourceAddDemographic ==
    /\ view = "demographic"
    /\ pc = "pending"
    /\ source # <<>>
    /\ DatasetSize(source) < MaxDatasetSize
    /\ \E demo \in DemographicBreakdowns :
          source' = AddRecord(source, "demographic_breakdown", demo)
    /\ UNCHANGED viewState

\* Mutant: the catch branch also stores an empty dataset as a fallback
LoadDataRejectWithFallback ==
    /\ pc = "pending"
    /\ source = <<>>
    /\ \E err \in Failures :
          /\ rejection' = err
          /\ error' = JsString(CatchMessage(err))
    /\ marketingData' = [campaigns |-> <<>>]
    /\ pc' = "finally"
    /\ UNCHANGED <<view, source, loading, demographicMetrics,
                   deviceMetrics, regionalData, weeklyChartData, heatMaps,
                   lineChart>>
    /\ Rerender

\* The fetch fails, delivering no dataset; catch (err): setError(err.message)
LoadDataReject ==
    /\ pc = "pending"
    /\ source = <<>>
    /\ \E err \in Failures :
          /\ rejection' = err
          /\ error' = JsString(CatchMessage(err))
    /\ pc' = "finally"
    /\ UNCHANGED <<view, source, marketingData, loading, demographicMetrics,
                   deviceMetrics, regionalData, weeklyChartData, heatMaps,
                   lineChart>>
    /\ Rerender

\* The fetch resolves with a dataset that has no campaign list; the render
\* that follows recomputes the aggregate of the view
LoadDataWithoutCampaigns ==
    /\ pc = "pending"
    /\ source = <<>>
    /\ marketingData' = DatasetWithoutCampaigns
    /\ demographicMetrics' = IF view = "demographic"
                             THEN DemographicMetrics(marketingData')
                             ELSE demographicMetrics
    /\ deviceMetrics' = IF view = "device"
                        THEN DeviceMetrics(marketingData')
                        ELSE deviceMetrics
    /\ regionalData' = IF view = "region"
                       THEN RegionalData(marketingData')
                       ELSE regionalData
    /\ weeklyChartData' = IF view = "weekly"
                          THEN WeeklyChartData(marketingData')
                          ELSE weeklyChartData
    /\ pc' = "finally"
    /\ UNCHANGED <<view, source, error, loading, heatMaps, lineChart>>
    /\ UNCHANGED rejection
    /\ Rerender

SourceAddDevice ==
    /\ view = "device"
    /\ pc = "pending"
    /\ source # <<>>
    /\ DatasetSize(source) < MaxDatasetSize
    /\ \E device \in DevicePerformances :
          source' = AddRecord(source, "device_performance", device)
    /\ UNCHANGED viewState

SourceAddRegion ==
    /\ view = "region"
    /\ pc = "pending"
    /\ source # <<>>
    /\ DatasetSize(source) < MaxDatasetSize
    /\ \E region \in RegionalPerformances :
          source' = AddRecord(source, "regional_performance", region)
    /\ UNCHANGED viewState

SourceAddWeek ==
    /\ view = "weekly"
    /\ pc = "pending"
    /\ source # <<>>
    /\ DatasetSize(source) < MaxDatasetSize
    /\ \E week \in WeeklyPerformances :
          source' = AddRecord(source, "weekly_performance", week)
    /\ UNCHANGED viewState

-----------------------------------------------------------------------------
(* DemographicView *)

\* const data = await fetchMarketingData(); setMarketingData(data)
\* and the render that follows: useMemo recomputes demographicMetrics
DemographicLoadData ==
    /\ view = "demographic"
    /\ pc = "pending"
    /\ marketingData' = [campaigns |-> source]
    /\ demographicMetrics' = DemographicMetrics(marketingData')
    /\ pc' = "finally"
    /\ UNCHANGED <<view, source, error, loading, deviceMetrics, regionalData,
                   weeklyChartData, heatMaps, lineChart>>
    /\ UNCHANGED rejection
    /\ Rerender

\* finally: setLoading(false)
DemographicFinally ==
    /\ view = "demographic"
    /\ pc = "finally"
    /\ loading' = FALSE
    /\ pc' = "done"
    /\ UNCHANGED <<view, source, marketingData, error, demographicMetrics,
                   deviceMetrics, regionalData, weeklyChartData, heatMaps,
                   lineChart>>
    /\ UNCHANGED rejection
    /\ Rerender

-----------------------------------------------------------------------------
(* DeviceView *)

DeviceLoadData ==
    /\ view = "device"
    /\ pc = "pending"
    /\ marketingData' = [campaigns |-> source]
    /\ deviceMetrics' = DeviceMetrics(marketingData')
    /\ pc' = "finally"
    /\ UNCHANGED <<view, source, error, loading, demographicMetrics,
                   regionalData, weeklyChartData, heatMaps, lineChart>>
    /\ UNCHANGED rejection
    /\ Rerender

\* Mutant: loadData without its finally branch
DeviceFinallyKeepsLoading ==
    /\ view = "device"
    /\ pc = "finally"
    /\ pc' = "done"
    /\ UNCHANGED <<view, source, marketingData, error, loading,
                   demographicMetrics, deviceMetrics, regionalData,
                   weeklyChartData, heatMaps, lineChart>>
    /\ UNCHANGED rejection
    /\ Rerender

DeviceFinally ==
    /\ view = "device"
    /\ pc = "finally"
    /\ loading' = FALSE
    /\ pc' = "done"
    /\ UNCHANGED <<view, source, marketingData, error, demographicMetrics,
                   deviceMetrics, regionalData, weeklyChartData, heatMaps,
                   lineChart>>
    /\ UNCHANGED rejection
    /\ Rerender

-----------------------------------------------------------------------------
(* RegionView *)

RegionLoadData ==
    /\ view = "region"
    /\ pc = "pending"
    /\ marketingData' = [campaigns |-> source]
    /\ regionalData' = RegionalData(marketingData')
    /\ pc' = "finally"
    /\ UNCHANGED <<view, source, error, loading, demographicMetrics,
                   deviceMetrics, weeklyChartData, heatMaps, lineChart>>
    /\ UNCHANGED rejection
    /\ Rerender

\* finally: setLoading(false); the render that follows mounts the two
\* HeatMaps when marketingData && regionalData, and each HeatMap sorts the
\* array it was given
RegionFinally ==
    /\ view = "region"
    /\ pc = "finally"
    /\ loading' = FALSE
    /\ pc' = "done"
    /\ IF marketingData # Null /\ regionalData # Null
       THEN /\ heatMaps' = [revenue |-> MountHeatMap(regionalData.revenueData),
                            spend |-> MountHeatMap(regionalData.spendData)]
            /\ regionalData' =
                   [revenueData |-> SortByValueDesc(regionalData.revenueData),
                    spendData |-> SortByValueDesc(regionalData.spendData)]
       ELSE UNCHANGED <<heatMaps, regionalData>>
    /\ UNCHANGED <<view, source, marketingData, error, demographicMetrics,
                   deviceMetrics, weeklyChartData, lineChart>>
    /\ UNCHANGED rejection
    /\ Rerender

HeatMapData(h) ==
    IF h = "revenue" THEN regionalData.revenueData ELSE regionalData.spendData

\* The pending import of one of the two HeatMaps completes
HeatMapLoadLeaflet ==
    /\ view = "region"
    /\ heatMaps # Null
    /\ \E h \in {"revenue", "spend"} :
          /\ heatMaps[h].importing
          /\ heatMaps' = [heatMaps EXCEPT
                             ![h] = LeafletLoaded(@, HeatMapData(h))]
    /\ UNCHANGED <<view, source, pc, marketingData, error, loading,
                   demographicMetrics, deviceMetrics, regionalData,
                   weeklyChartData, lineChart>>
    /\ UNCHANGED <<rejection, fetches, componentState>>

-----------------------------------------------------------------------------
(* WeeklyView *)

WeeklyLoadData ==
    /\ view = "weekly"
    /\ pc = "pending"
    /\ marketingData' = [campaigns |-> source]
    /\ weeklyChartData' = WeeklyChartData(marketingData')
    /\ pc' = "finally"
    /\ UNCHANGED <<view, source, error, loading, demographicMetrics,
                   deviceMetrics, regionalData, heatMaps, lineChart>>
    /\ UNCHANGED rejection
    /\ Rerender

\* finally: setLoading(false); the render that follows draws the LineChart
\* of the Revenue and Spend series when marketingData && weeklyChartData
WeeklyFinally ==
    /\ view = "weekly"
    /\ pc = "finally"
    /\ loading' = FALSE
    /\ pc' = "done"
    /\ lineChart' =
          IF marketingData # Null /\ weeklyChartData # Null
          THEN LineChart(<<[name |-> "Revenue",
                            data |-> weeklyChartData.revenueData],
                           [name |-> "Spend",
                            data |-> weeklyChartData.spendData]>>, 400)
          ELSE lineChart
    /\ UNCHANGED <<view, source, marketingData, error, demographicMetrics,
                   deviceMetrics, regionalData, weeklyChartData, heatMaps>>
    /\ UNCHANGED rejection
    /\ Rerender

-----------------------------------------------------------------------------
(* What a page renders *)

PageTitle ==
    CASE view = "demographic" -> "Demographic View"
      [] view = "device" -> "Device Performance"
      [] view = "region" -> "Regional Performance"
      [] view = "weekly" -> "Weekly View"

\* A string | null state used as a condition: null and '' are falsy
TruthyString(x) == x # Null /\ x.string # ""

\* The aggregate the mounted view computes
Aggregate ==
    CASE view = "demographic" -> demographicMetrics
      [] view = "device" -> deviceMetrics
      [] view = "region" -> regionalData
      [] view = "weekly" -> weeklyChartData

\* The render of the page: the loading screen while loading; then the hero
\* section with the error banner or the title, and the content (metrics,
\* chart, maps) when marketingData && aggregate
Page ==
    IF loading
    THEN [screen |-> "loading", hero |-> "", content |-> FALSE]
    ELSE [screen |-> "page",
          hero |-> IF TruthyString(error)
                   THEN "Error loading data: " \o error.string
                   ELSE PageTitle,
          content |-> (marketingData # Null /\ Aggregate # Null)]

-----------------------------------------------------------------------------
(* The components on their own *)

\* No page is mounted around the component
NoPage ==
    /\ view = "none"
    /\ source = <<>>
    /\ pc = "done"
    /\ marketingData = Null
    /\ error = Null
    /\ rejection = Null
    /\ loading = FALSE
    /\ demographicMetrics = Null
    /\ deviceMetrics = Null
    /\ regionalData = Null
    /\ weeklyChartData = Null
    /\ heatMaps = Null
    /\ fetches = 0

pageState == <<view, source, pc, marketingData, error, rejection, loading,
               demographicMetrics, deviceMetrics, regionalData,
               weeklyChartData, heatMaps, fetches>>

\* import('leaflet') of one of the pending effect runs resolves
HeatMapImportDone ==
    /\ heatMap # Null
    /\ \E i \in 1..Len(heatMap.runs) : heatMap' = HeatMapImported(heatMap, i)
    /\ UNCHANGED <<pageState, lineChart, chartSeries>>

\* The render that follows setLeafletLoaded(true)
HeatMapStateRender ==
    /\ heatMap # Null
    /\ heatMap.mounted
    /\ heatMap.renderDue
    /\ heatMap' = HeatMapRerender(heatMap, heatMap.data)
    /\ UNCHANGED <<pageState, lineChart, chartSeries>>

\* The parent renders the HeatMap again, with a new data array or a new
\* formatValue function
HeatMapPropsRender ==
    /\ heatMap # Null
    /\ heatMap.mounted
    /\ heatMap.propsRenders < MaxPropsRenders
    /\ \E data \in HeatMapInputs :
           heatMap' = [HeatMapRerender(heatMap, data)
                          EXCEPT !.propsRenders = @ + 1]
    /\ UNCHANGED <<pageState, lineChart, chartSeries>>

\* The parent stops rendering the HeatMap
HeatMapUnmount ==
    /\ heatMap # Null
    /\ heatMap.mounted
    /\ heatMap' = HeatMapUnmounted(heatMap)
    /\ UNCHANGED <<pageState, lineChart, chartSeries>>

\* The LineChart renders its series
LineChartRender ==
    /\ chartSeries # Null
    /\ lineChart = Null
    /\ lineChart' = LineChart(chartSeries.series, DefaultHeight)
    /\ UNCHANGED <<pageState, heatMap, chartSeries>>

-----------------------------------------------------------------------------
(* Specifications *)

InitDemographic == InitView("demographic")

NextDemographic ==
    \/ SourceAddCampaign
    \/ SourceAddDemographic
    \/ DemographicLoadData
    \/ LoadDataReject
    \/ DemographicFinally

SpecDemographic == InitDemographic /\ [][NextDemographic]_vars

InitDevice == InitView("device")

NextDevice ==
    \/ SourceAddCampaign
    \/ SourceAddDevice
    \/ DeviceLoadData
    \/ LoadDataReject
    \/ DeviceFinally

SpecDevice == InitDevice /\ [][NextDevice]_vars

InitRegion == InitView("region")

NextRegion ==
    \/ SourceAddCampaign
    \/ SourceAddRegion
    \/ RegionLoadData
    \/ LoadDataReject
    \/ RegionFinally
    \/ HeatMapLoadLeaflet

SpecRegion == InitRegion /\ [][NextRegion]_vars

InitWeekly == InitView("weekly")

NextWeekly ==
    \/ SourceAddCampaign
    \/ SourceAddWeek
    \/ WeeklyLoadData
    \/ LoadDataReject
    \/ WeeklyFinally

SpecWeekly == InitWeekly /\ [][NextWeekly]_vars

\* Any of the four views, mounted with the fetch of a small dataset pending
InitViews ==
    /\ view \in Views
    /\ source \in ViewDatasets(view)
    /\ pc = "pending"
    /\ marketingData = Null
    /\ error = Null
    /\ rejection = Null
    /\ loading = TRUE
    /\ demographicMetrics = Null
    /\ deviceMetrics = Null
    /\ regionalData = Null
    /\ weeklyChartData = Null
    /\ heatMaps = Null
    /\ lineChart = Null
    /\ fetches = 1
    /\ heatMap = Null
    /\ chartSeries = Null

NextViews ==
    \/ DemographicLoadData
    \/ DeviceLoadData
    \/ RegionLoadData
    \/ WeeklyLoadData
    \/ LoadDataWithoutCampaigns
    \/ LoadDataReject
    \/ DemographicFinally
    \/ DeviceFinally
    \/ RegionFinally
    \/ WeeklyFinally
    \/ HeatMapLoadLeaflet

SpecViews == InitViews /\ [][NextViews]_vars

\* finally { setLoading(false); } as the step of a view's Finally action on
\* the two variables that every view's Finally action sets alike
SetLoadingFalse ==
    /\ pc = "finally"
    /\ pc' = "done"
    /\ loading' = FALSE

\* The finally branch follows the try or the catch branch in the same run
\* of loadData, so once the fetch has settled it is bound to run; whether
\* the fetch settles is left open.  The Finally action of the mounted view
\* is enabled exactly when pc = "finally", so this is weak fairness of the
\* four Finally actions.
SpecViewsFair ==
    /\ SpecViews
    /\ WF_<<pc, loading>>(SetLoadingFalse)

\* A HeatMap after its mount, or a LineChart about to render
InitComponents ==
    /\ NoPage
    /\ lineChart = Null
    /\ \/ /\ heatMap \in {HeatMapMount(data) : data \in HeatMapInputs}
          /\ chartSeries = Null
       \/ /\ heatMap = Null
          /\ chartSeries \in {[series |-> s] : s \in LineChartInputs}

NextComponents ==
    \/ HeatMapImportDone
    \/ HeatMapStateRender
    \/ HeatMapPropsRender
    \/ HeatMapUnmount
    \/ LineChartRender

SpecComponents == InitComponents /\ [][NextComponents]_vars

\* WeeklyView or RegionView, mounted with the fetch of a dataset pending
\* whose sub-records share keys within and across campaigns
InitRollups ==
    /\ view \in {"weekly", "region"}
    /\ source \in RollupDatasets(view)
    /\ pc = "pending"
    /\ marketingData = Null
    /\ error = Null
    /\ rejection = Null
    /\ loading = TRUE
    /\ demographicMetrics = Null
    /\ deviceMetrics = Null
    /\ regionalData = Null
    /\ weeklyChartData = Null
    /\ heatMaps = Null
    /\ lineChart = Null
    /\ fetches = 1
    /\ heatMap = Null
    /\ chartSeries = Null

NextRollups ==
    \/ WeeklyLoadData
    \/ RegionLoadData
    \/ LoadDataReject
    \/ WeeklyFinally
    \/ RegionFinally
    \/ HeatMapLoadLeaflet

SpecRollups == InitRollups /\ [][NextRollups]_vars

\* DemographicView and DeviceView, whichever is mounted
InitRates == InitDemographic \/ InitDevice

NextRates ==
    \/ SourceAddCampaign
    \/ SourceAddDemographic
    \/ SourceAddDevice
    \/ DemographicLoadData
    \/ DeviceLoadData
    \/ LoadDataReject
    \/ DemographicFinally
    \/ DeviceFinally

SpecRates == InitRates /\ [][NextRates]_vars

-----------------------------------------------------------------------------
(* What the claims measure the rollups against: sums over the raw records *)

RECURSIVE Flatten(_, _)
Flatten(campaigns, field) ==
    IF campaigns = <<>> THEN <<>>
    ELSE Head(campaigns)[field] \o Flatten(Tail(campaigns), field)

RECURSIVE SeqSum(_)
SeqSum(ints) == IF ints = <<>> THEN 0 ELSE Head(ints) + SeqSum(Tail(ints))

RECURSIVE NumSum(_)
NumSum(nums) ==
    IF nums = <<>> THEN Num(0) ELSE JsAdd(Head(nums), NumSum(Tail(nums)))

Demos == Flatten(marketingData.campaigns, "demographic_breakdown")

RawTotalClicks ==
    SeqSum([i \in 1..Len(Demos) |-> Demos[i].performance.clicks])

RawTotalSpend ==
    SeqSum([i \in 1..Len(marketingData.campaigns) |->
              marketingData.campaigns[i].spend])

RawTotalRevenue ==
    SeqSum([i \in 1..Len(marketingData.campaigns) |->
              marketingData.campaigns[i].revenue])

-----------------------------------------------------------------------------
(* C1 *)

\* C1: proportional allocation conserves the totals.  When the dataset-wide
\* totalClicks > 0 the age-group click counts sum to totalClicks and the
\* allocated spend (revenue) over all age groups sums to the sum of
\* campaign.spend (campaign.revenue); when totalClicks = 0 every age group's
\* and the male/female allocated spend and revenue is 0.
C1_AllocationConservesTotals ==
    demographicMetrics # Null =>
        LET rows == demographicMetrics.ageGroupData
            m == demographicMetrics
        IN  IF RawTotalClicks > 0
            THEN /\ SeqSum([i \in 1..Len(rows) |-> rows[i].clicks])
                        = RawTotalClicks
                 /\ NumSum([i \in 1..Len(rows) |-> rows[i].spend])
                        = Num(RawTotalSpend)
                 /\ NumSum([i \in 1..Len(rows) |-> rows[i].revenue])
                        = Num(RawTotalRevenue)
            ELSE /\ \A i \in 1..Len(rows) :
                        rows[i].spend = Num(0) /\ rows[i].revenue = Num(0)
                 /\ m.maleSpend = Num(0) /\ m.femaleSpend = Num(0)
                 /\ m.maleRevenue = Num(0) /\ m.femaleRevenue = Num(0)

\* A dataset that splits a positive spend over two age groups with
\* different positive click counts
C1_Witness ==
    /\ demographicMetrics # Null
    /\ RawTotalSpend > 0
    /\ \E i, j \in 1..Len(demographicMetrics.ageGroupData) :
          LET rows == demographicMetrics.ageGroupData
          IN  /\ rows[i].clicks > rows[j].clicks
              /\ rows[j].clicks > 0
              /\ rows[j].spend # Num(0)

-----------------------------------------------------------------------------
(* C9 *)

MaleSpellings == {"male", "Male", "MALE"}
FemaleSpellings == {"female", "Female", "FEMALE"}

\* The demographic records of one gender class, in scan order
DemosOf(spellings) == SelectSeq(Demos, LAMBDA d : d.gender \in spellings)

OtherDemos ==
    SelectSeq(Demos, LAMBDA d : d.gender \notin MaleSpellings \cup FemaleSpellings)

ClicksOf(demos) == SeqSum([i \in 1..Len(demos) |-> demos[i].performance.clicks])

AgeGroupsOf(demos) == {demos[i].age_group : i \in 1..Len(demos)}

InAgeGroup(demos, ageGroup) ==
    SelectSeq(demos, LAMBDA d : d.age_group = ageGroup)

\* A gender table holds exactly the age groups of that gender's records,
\* each with the counters summed over those records
TableMatches(rows, demos) ==
    /\ {rows[i].ageGroup : i \in 1..Len(rows)} = AgeGroupsOf(demos)
    /\ Len(rows) = Cardinality(AgeGroupsOf(demos))
    /\ \A i \in 1..Len(rows) :
          LET ds == InAgeGroup(demos, rows[i].ageGroup)
          IN  /\ rows[i].clicks = ClicksOf(ds)
              /\ rows[i].impressions =
                    SeqSum([k \in 1..Len(ds) |-> ds[k].performance.impressions])
              /\ rows[i].conversions =
                    SeqSum([k \in 1..Len(ds) |-> ds[k].performance.conversions])

\* The part of C9 about which records reach which counter, and the two
\* inequalities
C9_Rollup ==
    LET m == demographicMetrics
        demos == Demos
        males == DemosOf(MaleSpellings)
        females == DemosOf(FemaleSpellings)
    IN  /\ m.maleClicks = ClicksOf(males)
        /\ m.femaleClicks = ClicksOf(females)
        /\ TableMatches(m.maleTableData, males)
        /\ TableMatches(m.femaleTableData, females)
        /\ \A i \in 1..Len(m.ageGroupData) :
              m.ageGroupData[i].clicks =
                  ClicksOf(InAgeGroup(demos, m.ageGroupData[i].ageGroup))
        /\ {m.ageGroupData[i].ageGroup : i \in 1..Len(m.ageGroupData)}
              = AgeGroupsOf(demos)
        /\ RawTotalClicks = m.maleClicks + m.femaleClicks + ClicksOf(OtherDemos)
        /\ m.maleClicks + m.femaleClicks <= RawTotalClicks
        /\ NumLeq(JsAdd(m.maleSpend, m.femaleSpend), Num(RawTotalSpend))
        /\ (m.maleClicks + m.femaleClicks = RawTotalClicks)
              <=> (ClicksOf(OtherDemos) = 0)

\* C9 as claimed: a record whose gender is neither male nor female reaches no
\* male or female counter or row but is counted in its age group's clicks and
\* in totalClicks; maleClicks + femaleClicks <= totalClicks and
\* maleSpend + femaleSpend <= totalSpend, each with equality exactly when
\* such records carry no clicks.
C9_Original ==
    demographicMetrics # Null =>
        /\ C9_Rollup
        /\ (JsAdd(demographicMetrics.maleSpend, demographicMetrics.femaleSpend)
                = Num(RawTotalSpend))
              <=> (ClicksOf(OtherDemos) = 0)

\* C9 as amended: as claimed, except that maleSpend + femaleSpend equals
\* totalSpend exactly when totalSpend = 0, or totalClicks > 0 and the records
\* of other genders carry no clicks (with totalClicks = 0 both allocations
\* are 0 whatever totalSpend is).
C9_GenderRollup ==
    demographicMetrics # Null =>
        /\ C9_Rollup
        /\ (JsAdd(demographicMetrics.maleSpend, demographicMetrics.femaleSpend)
                = Num(RawTotalSpend))
              <=> \/ RawTotalSpend = 0
                  \/ (RawTotalClicks > 0 /\ ClicksOf(OtherDemos) = 0)

\* A record of another gender with clicks beside a male record with clicks,
\* under a positive spend: both inequalities are strict
C9_Witness ==
    /\ demographicMetrics # Null
    /\ ClicksOf(OtherDemos) > 0
    /\ demographicMetrics.maleClicks > 0
    /\ RawTotalSpend > 0
    /\ JsAdd(demographicMetrics.maleSpend, demographicMetrics.femaleSpend)
          # Num(RawTotalSpend)

-----------------------------------------------------------------------------
(* C10 *)

\* Position of the first record of the age group in a scan of demos
FirstSeen(demos, ageGroup) ==
    CHOOSE i \in 1..Len(demos) :
        /\ demos[i].age_group = ageGroup
        /\ \A j \in 1..(i - 1) : demos[j].age_group # ageGroup

SortedWithTies(rows, TieBefore(_, _)) ==
    \A i, j \in 1..Len(rows) :
        i < j => \/ rows[i].clicks > rows[j].clicks
                 \/ /\ rows[i].clicks = rows[j].clicks
                    /\ TieBefore(rows[i].ageGroup, rows[j].ageGroup)

\* C10 as claimed: the age-group list and the male and female tables are
\* each sorted by descending clicks, and groups with equal clicks appear in
\* the order in which their age-group keys were first encountered while
\* scanning the campaigns.
C10_Original ==
    demographicMetrics # Null =>
        LET demos == Demos
            enc(a, b) == FirstSeen(demos, a) < FirstSeen(demos, b)
        IN  /\ SortedWithTies(demographicMetrics.ageGroupData, enc)
            /\ SortedWithTies(demographicMetrics.maleTableData, enc)
            /\ SortedWithTies(demographicMetrics.femaleTableData, enc)

\* The order of Object.entries over the keys of one list: labels that are
\* canonical array indices first, ascending, then the other labels in the
\* order of their first record among those that feed the list
EntriesBefore(demos, a, b) ==
    IF ArrayIndex(a) >= 0
    THEN ArrayIndex(b) < 0 \/ ArrayIndex(a) < ArrayIndex(b)
    ELSE ArrayIndex(b) < 0 /\ FirstSeen(demos, a) < FirstSeen(demos, b)

\* C10 as amended: each of the three lists is sorted by descending clicks,
\* and groups with equal clicks appear in the key order of the list's own
\* map: labels that are canonical array indices ("65") first in ascending
\* numeric order, then the other labels in the order in which they were first
\* encountered among the records that feed that list (all records for the
\* age-group list, the male records for the male table, the female records
\* for the female table).
C10_SortedByClicks ==
    demographicMetrics # Null =>
        LET demos == Demos
            males == DemosOf(MaleSpellings)
            females == DemosOf(FemaleSpellings)
        IN  /\ SortedWithTies(demographicMetrics.ageGroupData,
                  LAMBDA a, b : EntriesBefore(demos, a, b))
            /\ SortedWithTies(demographicMetrics.maleTableData,
                  LAMBDA a, b : EntriesBefore(males, a, b))
            /\ SortedWithTies(demographicMetrics.femaleTableData,
                  LAMBDA a, b : EntriesBefore(females, a, b))

\* Three age groups, two of them tied on positive clicks with ordinary
\* labels, and a male table of two rows
C10_Witness ==
    /\ demographicMetrics # Null
    /\ Len(demographicMetrics.ageGroupData) = 3
    /\ Len(demographicMetrics.maleTableData) >= 2
    /\ \E i, j \in 1..3 :
          LET rows == demographicMetrics.ageGroupData
          IN  /\ i < j
              /\ rows[i].clicks = rows[j].clicks
              /\ rows[i].clicks > 0
              /\ ArrayIndex(rows[i].ageGroup) < 0
              /\ ArrayIndex(rows[j].ageGroup) < 0
              /\ \E k \in 1..3 : rows[k].clicks # rows[i].clicks

-----------------------------------------------------------------------------
(* C2, C3, C8: the device rollup against the raw device sub-records *)

Devices == Flatten(marketingData.campaigns, "device_performance")

\* The spellings that lower-case to the two keys DeviceView reads
SpellingsOf(slot) ==
    IF slot = "mobile" THEN {"mobile", "Mobile", "MOBILE"}
    ELSE {"desktop", "Desktop", "DESKTOP"}

DevicesOf(slot) == SelectSeq(Devices, LAMBDA d : d.device \in SpellingsOf(slot))

FieldSum(recs, field) == SeqSum([i \in 1..Len(recs) |-> recs[i][field]])

\* rate = num / den * 100, as exact rationals
IsPercentOf(rate, num, den) ==
    /\ rate.k = "fin"
    /\ rate.n * den = 100 * num * rate.d

\* C2: a device summary sums impressions, clicks, conversions, spend and
\* revenue over every device sub-record of every campaign whose label
\* lower-cases to its key, and its ctr and conversion rate are recomputed from
\* the summed totals.
C2_DeviceSums ==
    deviceMetrics # Null =>
        \A slot \in {"mobile", "desktop"} :
            LET recs == DevicesOf(slot)
                d == deviceMetrics[slot]
            IN  IF recs = <<>> THEN d = Undefined
                ELSE /\ d # Undefined
                     /\ d.impressions = FieldSum(recs, "impressions")
                     /\ d.clicks = FieldSum(recs, "clicks")
                     /\ d.conversions = FieldSum(recs, "conversions")
                     /\ d.spend = FieldSum(recs, "spend")
                     /\ d.revenue = FieldSum(recs, "revenue")
                     /\ FieldSum(recs, "impressions") > 0 =>
                            IsPercentOf(d.ctr, FieldSum(recs, "clicks"),
                                        FieldSum(recs, "impressions"))
                     /\ FieldSum(recs, "clicks") > 0 =>
                            IsPercentOf(d.conversion_rate,
                                        FieldSum(recs, "conversions"),
                                        FieldSum(recs, "clicks"))

\* "Mobile" and "mobile" reported by two campaigns, with own rates whose
\* average is not the rate of the summed counters
C2_Witness ==
    /\ deviceMetrics # Null
    /\ Len(marketingData.campaigns) = 2
    /\ \A i \in 1..2 : Len(marketingData.campaigns[i].device_performance) = 1
    /\ LET a == marketingData.campaigns[1].device_performance[1]
           b == marketingData.campaigns[2].device_performance[1]
       IN  /\ a.device = "Mobile" /\ b.device = "mobile"
           /\ deviceMetrics.mobile.impressions = a.impressions + b.impressions
           /\ JsMul(Num(2), deviceMetrics.mobile.ctr) # JsAdd(a.ctr, b.ctr)
           /\ deviceMetrics.mobile.ctr # Num(0)

\* C3: every derived rate is total and zero-guarded.  For each device summary
\* and each male/female age-group row, ctr = clicks / impressions * 100 when
\* impressions > 0 and 0 otherwise, conversion rate = conversions / clicks *
\* 100 when clicks > 0 and 0 otherwise, for ill-formed counters too, and no
\* rate is NaN or infinite.
C3_RatesZeroGuarded ==
    LET ok(ctr, rate, r) ==
            /\ IsFinite(ctr) /\ IsFinite(rate)
            /\ IF r.impressions > 0
               THEN IsPercentOf(ctr, r.clicks, r.impressions)
               ELSE ctr = Num(0)
            /\ IF r.clicks > 0
               THEN IsPercentOf(rate, r.conversions, r.clicks)
               ELSE rate = Num(0)
        rowsOk(rows) ==
            \A i \in 1..Len(rows) :
                ok(rows[i].ctr, rows[i].conversionRate, rows[i])
    IN  /\ deviceMetrics # Null =>
               \A slot \in {"mobile", "desktop"} :
                   deviceMetrics[slot] # Undefined =>
                       ok(deviceMetrics[slot].ctr,
                          deviceMetrics[slot].conversion_rate,
                          deviceMetrics[slot])
        /\ demographicMetrics # Null =>
               /\ rowsOk(demographicMetrics.maleTableData)
               /\ rowsOk(demographicMetrics.femaleTableData)

\* A mobile summary with both denominators 0 and conversions > 0, beside a
\* desktop summary with clicks > impressions and conversions > clicks
C3_Witness ==
    /\ deviceMetrics # Null
    /\ deviceMetrics.mobile # Undefined
    /\ deviceMetrics.desktop # Undefined
    /\ deviceMetrics.mobile.impressions = 0
    /\ deviceMetrics.mobile.clicks = 0
    /\ deviceMetrics.mobile.conversions > 0
    /\ deviceMetrics.mobile.ctr = Num(0)
    /\ deviceMetrics.mobile.conversion_rate = Num(0)
    /\ deviceMetrics.desktop.clicks > deviceMetrics.desktop.impressions
    /\ deviceMetrics.desktop.conversions > deviceMetrics.desktop.clicks
    /\ deviceMetrics.desktop.impressions > 0

-----------------------------------------------------------------------------
(* C5, C7: the heat map of RegionView *)

HeatMapNames == {"revenue", "spend"}

\* The HeatMap h has built its map
HasMap(h) == heatMaps # Null /\ heatMaps[h].mapInstanceRef # Null

\* C5: the radius is a monotone function of the value.  For a non-empty
\* point set radius = 10000 + t * 150000 with t = (value - min) / (max - min):
\* a larger value never has a smaller radius, the maximum has radius 160000
\* and the minimum 10000; when all values are equal every radius is 85000.
C5_RadiusMonotone ==
    \A h \in HeatMapNames :
        HasMap(h) =>
            LET cs == heatMaps[h].mapInstanceRef.circles
                isMax(i) == \A j \in 1..Len(cs) : cs[j].value <= cs[i].value
                isMin(i) == \A j \in 1..Len(cs) : cs[j].value >= cs[i].value
            IN  /\ Len(cs) > 0
                /\ \A i \in 1..Len(cs) : IsFinite(cs[i].radius)
                /\ \A i, j \in 1..Len(cs) :
                      cs[i].value >= cs[j].value =>
                          NumLeq(cs[j].radius, cs[i].radius)
                /\ \A i \in 1..Len(cs) :
                      IF isMax(i) /\ isMin(i) THEN cs[i].radius = Num(85000)
                      ELSE /\ isMax(i) => cs[i].radius = Num(160000)
                           /\ isMin(i) => cs[i].radius = Num(10000)
                /\ \A i, lo, hi \in 1..Len(cs) :
                      isMin(lo) /\ isMax(hi) /\ cs[lo].value < cs[hi].value =>
                          cs[i].radius.n * (cs[hi].value - cs[lo].value) =
                              cs[i].radius.d *
                                  (10000 * (cs[hi].value - cs[lo].value)
                                   + 150000 * (cs[i].value - cs[lo].value))

\* A map of three circles with three different values: the smallest, a
\* radius strictly between, the largest
C5_Witness ==
    /\ HasMap("revenue")
    /\ LET cs == heatMaps.revenue.mapInstanceRef.circles
       IN  /\ Len(cs) = 3
           /\ \E i, j, k \in 1..3 :
                 /\ cs[i].value < cs[j].value /\ cs[j].value < cs[k].value
                 /\ cs[i].radius = Num(10000)
                 /\ cs[k].radius = Num(160000)
                 /\ cs[j].radius # Num(10000) /\ cs[j].radius # Num(160000)

\* The coordinate the claim expects for the regions of the model: the table
\* entry of Dubai and Abu Dhabi, the default for any other name
ExpectedCoords(region) ==
    CASE region = "Dubai" -> [lat |-> 252048, lng |-> 552708]
      [] region = "Abu Dhabi" -> [lat |-> 244539, lng |-> 543773]
      [] OTHER -> [lat |-> 240000, lng |-> 540000]

\* C7: a region name that is not in the coordinate table causes no error.
\* The regional rollup gives it the default coordinate (24.0, 54.0) and the
\* heat map plots its circle and marker there, and builds its map whatever
\* the names are; a region in the table gets its table coordinate.
C7_UnknownRegionDefault ==
    /\ regionalData # Null =>
          \A ps \in {regionalData.revenueData, regionalData.spendData} :
              \A i \in 1..Len(ps) :
                  /\ ps[i].lat = ExpectedCoords(ps[i].region).lat
                  /\ ps[i].lng = ExpectedCoords(ps[i].region).lng
    /\ \A h \in HeatMapNames :
          /\ HasMap(h) =>
                \A i \in 1..Len(heatMaps[h].mapInstanceRef.circles) :
                    LET c == heatMaps[h].mapInstanceRef.circles[i]
                    IN  /\ c.lat = ExpectedCoords(c.region).lat
                        /\ c.lng = ExpectedCoords(c.region).lng
                        /\ c.markerLat = c.lat
                        /\ c.markerLng = c.lng
          /\ (heatMaps # Null /\ ~heatMaps[h].importing
                  /\ HeatMapData(h) # <<>>) =>
                /\ HasMap(h)
                /\ Len(heatMaps[h].mapInstanceRef.circles)
                      = Len(HeatMapData(h))

\* A map with a circle for a region outside the table and one for Dubai
C7_Witness ==
    /\ HasMap("spend")
    /\ \E i, j \in 1..Len(heatMaps.spend.mapInstanceRef.circles) :
          LET cs == heatMaps.spend.mapInstanceRef.circles
          IN  /\ cs[i].region = "Atlantis"
              /\ cs[i].lat = 240000 /\ cs[i].lng = 540000
              /\ cs[j].region = "Dubai"
              /\ cs[j].lat = 252048 /\ cs[j].lng = 552708
    /\ \E i \in 1..Len(regionalData.spendData) :
          /\ regionalData.spendData[i].region = "Atlantis"
          /\ regionalData.spendData[i].lat = 240000

-----------------------------------------------------------------------------
(* C4, C6: the weekly rollup and its line chart *)

\* The calendar order of the week starts of the model
Chronological == <<"2023-12-25", "2024-01-01", "2024-01-08", "2024-01-15">>

CalendarRank(start) == CHOOSE i \in 1..Len(Chronological) : Chronological[i] = start

Ascending(points) ==
    \A i, j \in 1..Len(points) :
        i < j => CalendarRank(points[i].label) <= CalendarRank(points[j].label)

Weeks == Flatten(marketingData.campaigns, "weekly_performance")

\* C4: whatever the order of the weekly sub-records within and across
\* campaigns, the spend and revenue series are in ascending chronological
\* order of week_start, one point per aggregated week.
C4_WeeksAscending ==
    weeklyChartData # Null =>
        /\ Ascending(weeklyChartData.spendData)
        /\ Ascending(weeklyChartData.revenueData)
        /\ {weeklyChartData.spendData[i].label :
               i \in 1..Len(weeklyChartData.spendData)}
              = {Weeks[i].week_start : i \in 1..Len(Weeks)}
        /\ Len(weeklyChartData.spendData)
              = Cardinality({<<Weeks[i].week_start, Weeks[i].week_end>> :
                                i \in 1..Len(Weeks)})
        /\ Len(weeklyChartData.revenueData) = Len(weeklyChartData.spendData)

\* Weeks given as 2024-01-08, 2024-01-01, 2024-01-15 come out as
\* 2024-01-01, 2024-01-08, 2024-01-15
C4_Witness ==
    /\ weeklyChartData # Null
    /\ [i \in 1..Len(Weeks) |-> Weeks[i].week_start]
          = <<"2024-01-08", "2024-01-01", "2024-01-15">>
    /\ [i \in 1..Len(weeklyChartData.spendData) |->
           weeklyChartData.spendData[i].label]
          = <<"2024-01-01", "2024-01-08", "2024-01-15">>
    /\ [i \in 1..Len(weeklyChartData.revenueData) |->
           weeklyChartData.revenueData[i].label]
          = <<"2024-01-01", "2024-01-08", "2024-01-15">>

\* C6: when the union of labels of a line chart holds exactly one label, the
\* x-scale divides by no zero and the single point and its x-axis label are
\* placed at x = padding, the left edge of the plotting area.
C6_SingleLabelAtLeftEdge ==
    (lineChart # Null /\ ~lineChart.empty /\ Len(lineChart.allLabels) = 1) =>
        /\ lineChart.labelX[1] = Num(padding)
        /\ \A s \in 1..Len(lineChart.lines) :
              \A i \in 1..Len(lineChart.lines[s].circles) :
                  lineChart.lines[s].circles[i].x = Num(padding)

-----------------------------------------------------------------------------
(* C11: the order of the regional point lists *)

Regions == Flatten(marketingData.campaigns, "regional_performance")

\* Position of the first record of the region in a scan of the records
FirstRecord(regions, name) ==
    CHOOSE i \in 1..Len(regions) :
        /\ regions[i].region = name
        /\ \A j \in 1..(i - 1) : regions[j].region # name

\* One point per distinct region name, each with the country of the first
\* record of its region
OnePointPerRegion(points, regions) ==
    /\ {points[i].region : i \in 1..Len(points)}
          = {regions[i].region : i \in 1..Len(regions)}
    /\ \A i, j \in 1..Len(points) :
          points[i].region = points[j].region => i = j
    /\ \A i \in 1..Len(points) :
          points[i].country
              = regions[FirstRecord(regions, points[i].region)].country

\* The rollup has run and no HeatMap has rendered its lists yet
RollupFresh == regionalData # Null /\ heatMaps = Null

-----------------------------------------------------------------------------
(* C12: the aggregates of an absent and of an empty dataset *)

\* The dataset, or its campaign list, is absent
DatasetAbsent == marketingData = Null \/ marketingData = DatasetWithoutCampaigns

EmptyCampaignList == ~DatasetAbsent /\ marketingData.campaigns = <<>>

\* The aggregates of the other three views for no campaigns: zero totals and
\* empty lists
EmptyStateOfLists ==
    CASE view = "demographic" ->
             /\ demographicMetrics.maleClicks = 0
             /\ demographicMetrics.femaleClicks = 0
             /\ demographicMetrics.maleSpend = Num(0)
             /\ demographicMetrics.femaleSpend = Num(0)
             /\ demographicMetrics.maleRevenue = Num(0)
             /\ demographicMetrics.femaleRevenue = Num(0)
             /\ demographicMetrics.ageGroupData = <<>>
             /\ demographicMetrics.maleTableData = <<>>
             /\ demographicMetrics.femaleTableData = <<>>
      [] view = "region" ->
             /\ regionalData.revenueData = <<>>
             /\ regionalData.spendData = <<>>
      [] view = "weekly" ->
             /\ weeklyChartData.spendData = <<>>
             /\ weeklyChartData.revenueData = <<>>
      [] view = "device" -> TRUE

\* A device summary whose totals and rates are all zero
ZeroSummary(d) ==
    /\ d # Undefined
    /\ d.impressions = 0 /\ d.clicks = 0 /\ d.conversions = 0
    /\ d.spend = 0 /\ d.revenue = 0
    /\ d.ctr = Num(0) /\ d.conversion_rate = Num(0)

\* C12 as claimed: each of the four aggregates is null exactly when the
\* dataset or its campaign list is absent; for an empty campaign list each
\* aggregate is a non-null, fully-formed empty state: zero totals for every
\* summary and empty result lists.
C12_Original ==
    /\ pc # "pending" => (Aggregate = Null <=> DatasetAbsent)
    /\ EmptyCampaignList =>
          /\ Aggregate # Null
          /\ EmptyStateOfLists
          /\ view = "device" =>
                /\ ZeroSummary(deviceMetrics.mobile)
                /\ ZeroSummary(deviceMetrics.desktop)

\* C12 as amended: each of the four aggregates is null exactly when the
\* dataset or its campaign list is absent; for an empty campaign list the
\* demographic aggregate has zero totals and empty lists, the regional and
\* weekly aggregates have empty lists, and the device aggregate is a
\* non-null structure whose mobile and desktop summaries are both absent
\* (undefined), not summaries of zero totals.
C12_AggregateNullOrEmptyState ==
    /\ pc = "pending" => (Aggregate = Null /\ marketingData = Null)
    /\ pc # "pending" => (Aggregate = Null <=> DatasetAbsent)
    /\ EmptyCampaignList =>
          /\ Aggregate # Null
          /\ EmptyStateOfLists
          /\ view = "device" =>
                /\ deviceMetrics.mobile = Undefined
                /\ deviceMetrics.desktop = Undefined

\* An empty campaign list has been aggregated by the device view
C12_Witness ==
    /\ view = "device"
    /\ EmptyCampaignList
    /\ deviceMetrics # Null
    /\ deviceMetrics.mobile = Undefined

\* A dataset without a campaign list has been received and the aggregate of
\* the weekly view is null
C12_WitnessAbsent ==
    /\ view = "weekly"
    /\ marketingData = DatasetWithoutCampaigns
    /\ weeklyChartData = Null

-----------------------------------------------------------------------------
(* C13: one fetch per activation of a view *)

\* C13: in every view the dataset fetch is issued exactly once per
\* activation: the renders caused by setting the data, the error or the
\* loading flag issue no other fetch, and a failed fetch is not retried (once
\* the fetch has settled it is never pending again).
C13_FetchedOnce ==
    /\ fetches = 1
    /\ (marketingData # Null \/ error # Null) => pc \in {"finally", "done"}

\* A view whose fetch failed and that has rendered its error: one fetch
C13_Witness ==
    /\ pc = "done"
    /\ error # Null
    /\ ~loading
    /\ fetches = 1

-----------------------------------------------------------------------------
(* C14: a failed fetch *)

\* C14: when the fetch fails, the error state becomes the failure's message
\* verbatim (for a failure that is an Error and so has a message), the
\* dataset stays absent, every aggregate stays null so that no metric, chart
\* or map is rendered, and the error message is what the view shows.
C14_FailureShown ==
    rejection # Null =>
        /\ error # Null
        /\ rejection.type = "Error" => error.string = rejection.message
        /\ marketingData = Null
        /\ demographicMetrics = Null /\ deviceMetrics = Null
        /\ regionalData = Null /\ weeklyChartData = Null
        /\ heatMaps = Null /\ lineChart = Null
        /\ ~loading =>
              /\ ~Page.content
              /\ Page.hero = "Error loading data: " \o error.string

-----------------------------------------------------------------------------
(* C16: the side table and the markers of a heat map *)

\* The point sequence RegionView supplied to the HeatMap h: the list its
\* rollup returned
Supplied(h) ==
    IF h = "revenue" THEN RegionalData(marketingData).revenueData
    ELSE RegionalData(marketingData).spendData

RegionsOf(points) == [i \in 1..Len(points) |-> points[i].region]

\* C16: the side table lists the points in descending order of value, and
\* this order is independent of the markers: the markers are generated in
\* the order in which the caller supplied the points, and building the table
\* leaves the supplied point sequence in its original order.
C16_TableIndependentOfMarkers ==
    heatMaps # Null =>
        \A h \in HeatMapNames :
            /\ \A i, j \in 1..Len(heatMaps[h].table) :
                  i < j => heatMaps[h].table[i].value
                              >= heatMaps[h].table[j].value
            /\ HeatMapData(h) = Supplied(h)
            /\ HasMap(h) =>
                  RegionsOf(heatMaps[h].mapInstanceRef.circles)
                      = RegionsOf(Supplied(h))

-----------------------------------------------------------------------------
(* C15: the map instances of a HeatMap that was torn down *)

Undisposed(hm) == {i \in 1..Len(hm.maps) : ~hm.maps[i].removed}

\* C15: once the HeatMap is unmounted, every map instance it created has
\* been removed, whenever the imports of its effect runs resolve.
C15_NoMapLeftAfterTeardown ==
    (heatMap # Null /\ ~heatMap.mounted) => Undisposed(heatMap) = {}

\* The HeatMap is unmounted, maps were created, and an import is still to
\* resolve after the teardown
C15_Witness ==
    /\ heatMap # Null
    /\ ~heatMap.mounted
    /\ Len(heatMap.maps) >= 2
    /\ heatMap.runs # <<>>

-----------------------------------------------------------------------------
(* C17: the empty states of the two components *)

\* series is empty, or every series has no data
NothingToPlot(series) ==
    \A i \in 1..Len(series) : series[i].data = <<>>

\* C17: a HeatMap whose point list is empty shows its empty state, with no
\* table row and no live map, and one that never had points has created no
\* map at all; a LineChart with no series, or with series without data,
\* renders its empty state, with no label, no coordinate and no line.
C17_EmptyInputEmptyState ==
    /\ (heatMap # Null /\ heatMap.data = <<>>) =>
          /\ heatMap.empty
          /\ heatMap.table = <<>>
          /\ heatMap.mapInstanceRef = Null
          /\ Undisposed(heatMap) = {}
          /\ heatMap.propsRenders = 0 => heatMap.maps = <<>>
    /\ (lineChart # Null /\ chartSeries # Null
          /\ NothingToPlot(chartSeries.series)) =>
          /\ lineChart.empty
          /\ lineChart.allLabels = <<>>
          /\ lineChart.labelX = <<>>
          /\ lineChart.lines = <<>>

\* A HeatMap that had points and now has none, after the import of a run
\* that started with points has resolved
C17_Witness ==
    /\ heatMap # Null
    /\ heatMap.mounted
    /\ heatMap.data = <<>>
    /\ heatMap.leafletLoaded
    /\ heatMap.runs = <<>>
    /\ heatMap.maps # <<>>

\* A LineChart rendered for two series without data
C17_WitnessChart ==
    /\ lineChart # Null
    /\ chartSeries # Null
    /\ Len(chartSeries.series) = 2
    /\ NothingToPlot(chartSeries.series)

-----------------------------------------------------------------------------
(* C18: the x-axis of a line chart *)

\* The places of the points, series by series and point by point
Places(series) ==
    UNION {{<<i, k>> : k \in 1..Len(series[i].data)} : i \in 1..Len(series)}

LabelAt(series, p) == series[p[1]].data[p[2]].label

Earlier(p, q) == p[1] < q[1] \/ (p[1] = q[1] /\ p[2] < q[2])

\* The first place a label occurs at, scanning the series in order
FirstPlace(series, label) ==
    CHOOSE p \in Places(series) :
        /\ LabelAt(series, p) = label
        /\ \A q \in Places(series) :
              LabelAt(series, q) = label => ~Earlier(q, p)

\* C18: the labels of the x-axis are the labels of the points of all
\* series, each once, in the order of their first occurrence; every point
\* of a series is drawn, at the index of its label, and a series has a
\* point at a label only where its data has one.
C18_LabelUnion ==
    (lineChart # Null /\ chartSeries # Null /\ ~lineChart.empty) =>
        LET series == chartSeries.series
            labels == lineChart.allLabels
            lines == lineChart.lines
        IN  /\ {labels[j] : j \in 1..Len(labels)}
                  = {LabelAt(series, p) : p \in Places(series)}
            /\ \A i, j \in 1..Len(labels) :
                  i < j => /\ labels[i] # labels[j]
                           /\ Earlier(FirstPlace(series, labels[i]),
                                      FirstPlace(series, labels[j]))
            /\ \A i \in 1..Len(series) :
                  /\ Len(lines[i].circles) = Len(series[i].data)
                  /\ Len(lines[i].labelIndex) = Len(series[i].data)
                  /\ \A k \in 1..Len(lines[i].labelIndex) :
                        /\ lines[i].labelIndex[k] \in 0..(Len(labels) - 1)
                        /\ labels[lines[i].labelIndex[k] + 1]
                              = series[i].data[k].label
                  /\ \A j \in 1..Len(labels) :
                        (\E k \in 1..Len(lines[i].labelIndex) :
                            lines[i].labelIndex[k] = j - 1)
                        <=> (\E k \in 1..Len(series[i].data) :
                                series[i].data[k].label = labels[j])

\* A chart of two series: the first has W2 only, the second W1 then W2
C18_Witness ==
    /\ lineChart # Null
    /\ chartSeries # Null
    /\ Len(chartSeries.series) = 2
    /\ lineChart.allLabels = <<"W2", "W1">>
    /\ Len(lineChart.lines[1].circles) = 1
    /\ lineChart.lines[2].labelIndex = <<1, 0>>

-----------------------------------------------------------------------------
(* C19: the y-scale of a line chart *)

ValuesOf(series) == {series[p[1]].data[p[2]].value : p \in Places(series)}

Smallest(values) == CHOOSE v \in values : \A w \in values : v <= w

Largest(values) == CHOOSE v \in values : \A w \in values : v >= w

\* chartHeight - 2 * padding
InnerHeight(chart) == chart.chartHeight - 2 * padding

\* The y of the point drawn for the value at place p
DrawnY(chart, p) == chart.lines[p[1]].circles[p[2]].y

\* The y the scale of the chart gives a number
ScaleY(chart, value) ==
    PointY(value, chart.maxValue, chart.yAxisRange, chart.chartHeight)

\* The parts of the claim that do not speak of the bottom edge
YScale(series, chart) ==
    /\ chart.yAxisMin = IF Smallest(ValuesOf(series)) >= 0 THEN Num(0)
                        ELSE Normalize(Smallest(ValuesOf(series)) * 11, 10)
    /\ \A p \in Places(series) :
          /\ IsFinite(DrawnY(chart, p))
          /\ NumLeq(Num(padding), DrawnY(chart, p))
          /\ NumLeq(DrawnY(chart, p), Num(padding + InnerHeight(chart)))
          /\ series[p[1]].data[p[2]].value = Largest(ValuesOf(series))
                => DrawnY(chart, p) = Num(padding)
    /\ chart.yAxisRange = Num(0) =>
          \A p \in Places(series) : DrawnY(chart, p) = Num(padding)

C19_WitnessNegative ==
    /\ lineChart # Null
    /\ chartSeries # Null
    /\ ~lineChart.empty
    /\ ValuesOf(chartSeries.series) = {-10, 0, 10}
    /\ lineChart.yAxisMin = Num(-11)

-----------------------------------------------------------------------------
(* C20: the order of the vertices of a line *)

\* C20: the vertices of the path of every series follow each other in
\* non-decreasing order of the index of their label in the list of labels.
C20_PathInLabelOrder ==
    (lineChart # Null /\ ~lineChart.empty) =>
        \A s \in 1..Len(lineChart.lines) :
            \A i, j \in 1..Len(lineChart.lines[s].path) :
                i < j => lineChart.lines[s].labelIndex[i]
                            <= lineChart.lines[s].labelIndex[j]

-----------------------------------------------------------------------------
(* C21: the mobile-vs-desktop percentages of DeviceView *)

\* C21: whenever the mobile and the desktop summary both exist, the three
\* percentages of the comparison block are finite numbers, also when a
\* desktop total is 0.
C21_ComparisonFinite ==
    (view = "device" /\ Page.screen = "page" /\ Page.content
       /\ deviceMetrics.mobile # Undefined
       /\ deviceMetrics.desktop # Undefined) =>
        \A field \in {"clicks", "conversions", "revenue"} :
            PerformanceComparison(deviceMetrics)[field].text = "number"

-----------------------------------------------------------------------------
(* C22: the weekly and the regional rollup against the raw sub-records *)

\* The records of a sequence that satisfy a key, as a sequence
WeeksOf(start, end) ==
    SelectSeq(Weeks, LAMBDA w : w.week_start = start /\ w.week_end = end)

RegionsNamed(region) == SelectSeq(Regions, LAMBDA r : r.region = region)

WeekKeys == {<<Weeks[i].week_start, Weeks[i].week_end>> : i \in 1..Len(Weeks)}

RegionKeys == {Regions[i].region : i \in 1..Len(Regions)}

\* The groups of the weekly rollup that stand for the key
WeekGroups(key) ==
    {i \in 1..Len(weeklyChartData.spendData) :
        /\ weeklyChartData.spendData[i].label = key[1]
        /\ weeklyChartData.revenueData[i].label = key[1]
        /\ weeklyChartData.spendData[i].value
              = FieldSum(WeeksOf(key[1], key[2]), "spend")
        /\ weeklyChartData.revenueData[i].value
              = FieldSum(WeeksOf(key[1], key[2]), "revenue")}

\* C22: the weekly rollup has one group per distinct week_start/week_end
\* pair, holding the sums of the spend and of the revenue of the records of
\* that pair, and the regional rollup one point per distinct region in each
\* list, holding the sum of that region's records; the spend and the revenue
\* summed over the groups are the spend and the revenue summed over all
\* sub-records.
C22_EveryRecordInOneGroup ==
    /\ weeklyChartData # Null =>
          /\ Len(weeklyChartData.spendData) = Cardinality(WeekKeys)
          /\ Len(weeklyChartData.revenueData) = Cardinality(WeekKeys)
          /\ \A key \in WeekKeys : WeekGroups(key) # {}
          /\ FieldSum(weeklyChartData.spendData, "value")
                = FieldSum(Weeks, "spend")
          /\ FieldSum(weeklyChartData.revenueData, "value")
                = FieldSum(Weeks, "revenue")
    /\ regionalData # Null =>
          /\ Len(regionalData.spendData) = Cardinality(RegionKeys)
          /\ Len(regionalData.revenueData) = Cardinality(RegionKeys)
          /\ \A region \in RegionKeys :
                /\ \E i \in 1..Len(regionalData.spendData) :
                      /\ regionalData.spendData[i].region = region
                      /\ regionalData.spendData[i].value
                            = FieldSum(RegionsNamed(region), "spend")
                /\ \E i \in 1..Len(regionalData.revenueData) :
                      /\ regionalData.revenueData[i].region = region
                      /\ regionalData.revenueData[i].value
                            = FieldSum(RegionsNamed(region), "revenue")
          /\ FieldSum(regionalData.spendData, "value")
                = FieldSum(Regions, "spend")
          /\ FieldSum(regionalData.revenueData, "value")
                = FieldSum(Regions, "revenue")

\* Two campaigns report the same week with different money: one group
\* with the summed spend and the summed revenue
C22_Witness ==
    /\ weeklyChartData # Null
    /\ Len(marketingData.campaigns) = 2
    /\ \A i \in 1..2 : Len(marketingData.campaigns[i].weekly_performance) = 1
    /\ Cardinality(WeekKeys) = 1
    /\ Len(weeklyChartData.spendData) = 1
    /\ weeklyChartData.spendData[1].value = 30
    /\ weeklyChartData.revenueData[1].value = 30

\* Two records of one region in two campaigns, summed into one point
C22_WitnessRegion ==
    /\ regionalData # Null
    /\ Len(marketingData.campaigns) = 2
    /\ Len(Regions) = 2
    /\ Cardinality(RegionKeys) = 1
    /\ regionalData.spendData[1].value = FieldSum(Regions, "spend")
    /\ regionalData.spendData[1].value > Regions[1].spend

-----------------------------------------------------------------------------
(* C23: the three states of the fetch lifecycle *)

\* The fetch has settled: resolved (no rejection) or rejected
Settled == pc \in {"finally", "done"}

FetchStateConsistent ==
    /\ ~(marketingData # Null /\ error # Null)
    /\ marketingData # Null => (Settled /\ rejection = Null)
    /\ error # Null => (Settled /\ rejection # Null)
    /\ ~Settled => loading

\* C23: the dataset and the error are never both set, the dataset is set
\* only once the fetch has resolved and the error only once it has rejected,
\* loading is true until the fetch settles, and once loading is false it
\* stays false.
C23_FetchLifecycle ==
    /\ [](FetchStateConsistent)
    /\ [][~loading => ~loading']_vars

\* A view that has left the loading state with its dataset set
C23_Witness ==
    /\ pc = "done"
    /\ ~loading
    /\ marketingData # Null
    /\ HasCampaigns(marketingData)
    /\ marketingData.campaigns # <<>>
    /\ error = Null

-----------------------------------------------------------------------------
(* C24: a settled fetch ends the loading state *)

\* C24: once the fetch has settled, with either outcome, loading becomes
\* false, and whenever loading is false the dataset or the error is set.
C24_SettledLeavesLoading ==
    /\ Settled ~> ~loading
    /\ [](~loading => (marketingData # Null \/ error # Null))

\* A view that left the loading state after its fetch rejected with a value
\* that is no Error
C24_Witness ==
    /\ ~loading
    /\ rejection # Null
    /\ rejection.type = "string"
    /\ error = JsString("Failed to load data")
    /\ marketingData = Null

-----------------------------------------------------------------------------
(* C25: the live map of a HeatMap *)

\* No import is pending and no render is due
Quiescent(hm) == hm.runs = <<>> /\ ~hm.renderDue

\* C25: at most one map of a HeatMap is live, it is the one mapInstanceRef
\* holds, and once every import has completed its markers are those of the
\* data supplied last.
C25_OneLiveMapOfLatestData ==
    heatMap # Null =>
        /\ Cardinality(Undisposed(heatMap)) <= 1
        /\ \A i \in Undisposed(heatMap) :
              heatMap.mapInstanceRef = [map |-> i]
        /\ Quiescent(heatMap) =>
              \A i \in Undisposed(heatMap) :
                  heatMap.maps[i].instance = HeatMapInstance(heatMap.data)

-----------------------------------------------------------------------------
(* C26: the colours of the circles and of the table rows *)

\* C26: with no import pending and no render due, the circle of a region on
\* the live map of a HeatMap has the colour of the swatch in the table row
\* of that region.
C26_CircleColourIsRowColour ==
    (heatMap # Null /\ heatMap.mounted /\ Quiescent(heatMap)) =>
        \A i \in Undisposed(heatMap) :
            LET circles == heatMap.maps[i].instance.circles
            IN  \A c \in 1..Len(circles), r \in 1..Len(heatMap.table) :
                    circles[c].region = heatMap.table[r].region
                        => circles[c].color = heatMap.table[r].color

-----------------------------------------------------------------------------
(* C27: the labels of the weekly chart data *)

LabelsOf(points) == [i \in 1..Len(points) |-> points[i].label]

\* C27: in the weekly chart data no label occurs twice in the spend series
\* or in the revenue series, the two series carry the same labels in the
\* same order, and the chart drawn from them has one x position per
\* aggregated week.
C27_OneWeekPerLabel ==
    weeklyChartData # Null =>
        /\ \A i, j \in 1..Len(weeklyChartData.spendData) :
              i # j => weeklyChartData.spendData[i].label
                          # weeklyChartData.spendData[j].label
        /\ \A i, j \in 1..Len(weeklyChartData.revenueData) :
              i # j => weeklyChartData.revenueData[i].label
                          # weeklyChartData.revenueData[j].label
        /\ LabelsOf(weeklyChartData.spendData)
              = LabelsOf(weeklyChartData.revenueData)
        /\ (lineChart # Null /\ ~lineChart.empty) =>
              Len(lineChart.allLabels) = Len(weeklyChartData.spendData)

=============================================================================
